-------------------------- MODULE Spec2Model --------------------------
(***************************************************************************)
(* Model of the Bluetime JSON Resume theme (src/src/index.ts): render maps *)
(* a resume record to one HTML string.                                     *)
(*                                                                         *)
(* A string is a sequence of atoms.  An atom is one of the five HTML       *)
(* metacharacters, one character of caller data, or a run of characters    *)
(* free of metacharacters taken from a literal of the source.  The string  *)
(* is the concatenation of its atoms.  Caller data is always held one      *)
(* character per atom, so that escaping, lower-casing, the scheme regex    *)
(* and URL parsing work on characters.                                     *)
(***************************************************************************)
EXTENDS Integers, Sequences, FiniteSets, TLC

VARIABLES resume, html, raised, calls, args, element

vars == <<resume, html, raised, calls, args, element>>

\* ------------------------------------------------------------------------
\* JavaScript values
\* ------------------------------------------------------------------------

\* An optional value (a field of a record, a destructured variable, an
\* optional parameter) is a sequence of length at most one: <<>> is
\* undefined and <<v>> holds v.
None == <<>>

Some(v) == <<v>>

\* A TypeError thrown while a fragment is built; it aborts the whole render.
TypeError == "<TypeError>"

\* if (o.k) for an object or array field: present means truthy.
Has(o, k) == o[k] # None

\* if (s) for an optional string: undefined and "" are falsy.
Truthy(s) == s # None /\ s[1] # <<>>

\* x && x.length > 0 for an optional array.
NonEmptyArray(a) == a # None /\ Len(a[1]) > 0

\* The receiver of a method call (s.replace, s.toLowerCase, for .. of s):
\* on undefined the call throws.
Val(s) == IF s = None THEN <<TypeError>> ELSE s[1]

\* String coercion of the right operand of "literal" + s.
Str(s) == IF s = None THEN <<"undefined">> ELSE s[1]

RECURSIVE Flatten(_)
Flatten(ss) == IF ss = <<>> THEN <<>> ELSE Head(ss) \o Flatten(Tail(ss))

RECURSIVE Join(_, _)
Join(parts, sep) ==
  IF parts = <<>> THEN <<>>
  ELSE IF Len(parts) = 1 THEN Head(parts)
  ELSE Head(parts) \o sep \o Join(Tail(parts), sep)

UpperCase ==
  <<"A","B","C","D","E","F","G","H","I","J","K","L","M",
    "N","O","P","Q","R","S","T","U","V","W","X","Y","Z">>

LowerCase ==
  <<"a","b","c","d","e","f","g","h","i","j","k","l","m",
    "n","o","p","q","r","s","t","u","v","w","x","y","z">>

Digits == {"0","1","2","3","4","5","6","7","8","9"}

IsUpper(c) == \E i \in DOMAIN UpperCase : UpperCase[i] = c

IsAlpha(c) == IsUpper(c) \/ \E i \in DOMAIN LowerCase : LowerCase[i] = c

LowerChar(c) ==
  IF IsUpper(c) THEN LowerCase[CHOOSE i \in DOMAIN UpperCase : UpperCase[i] = c]
  ELSE c

\* String.prototype.toLowerCase
toLowerCase(s) == [i \in DOMAIN s |-> LowerChar(s[i])]

\* text.replace(/c/g, r): every occurrence of the character c becomes r.
RECURSIVE replaceAll(_, _, _)
replaceAll(text, c, r) ==
  IF text = <<>> THEN <<>>
  ELSE (IF Head(text) = c THEN r ELSE <<Head(text)>>)
       \o replaceAll(Tail(text), c, r)

HasPrefixCI(s, p) ==
  /\ Len(s) >= Len(p)
  /\ \A i \in DOMAIN p : LowerChar(s[i]) = p[i]

\* url.replace(/^https?:\/\//i, ""): one scheme prefix, matched at the
\* start without regard to case, is removed.
\* Mutant: the scheme is matched but replaced by itself.
stripProtocol_Keep(url) == url

stripProtocol(url) ==
  IF HasPrefixCI(url, <<"h","t","t","p","s",":","/","/">>)
    THEN SubSeq(url, 9, Len(url))
  ELSE IF HasPrefixCI(url, <<"h","t","t","p",":","/","/">>)
    THEN SubSeq(url, 8, Len(url))
  ELSE url

\* ------------------------------------------------------------------------
\* HTMLUtils
\* ------------------------------------------------------------------------

\* Mutant: the ampersand is replaced last, after the other four.
escapeHtml_AmpersandLast(text) ==
    LET a == replaceAll(text, "<", <<"&","l","t",";">>)
        b == replaceAll(a, ">", <<"&","g","t",";">>)
        c == replaceAll(b, "\"", <<"&","q","u","o","t",";">>)
        d == replaceAll(c, "'", <<"&","#","3","9",";">>)
    IN  replaceAll(d, "&", <<"&","a","m","p",";">>)

escapeHtml(text) ==
    LET a == replaceAll(text, "&", <<"&","a","m","p",";">>)
        b == replaceAll(a, "<", <<"&","l","t",";">>)
        c == replaceAll(b, ">", <<"&","g","t",";">>)
        d == replaceAll(c, "\"", <<"&","q","u","o","t",";">>)
    IN  replaceAll(d, "'", <<"&","#","3","9",";">>)

\* Mutant: the text is returned without being escaped.
safeText_Raw(text) == IF Truthy(text) THEN text[1] ELSE <<>>

safeText(text) == IF Truthy(text) THEN escapeHtml(text[1]) ELSE <<>>

\* One attribute of the attributes mapping, as Object.entries yields it.
Attribute(kv) ==
  <<" ">> \o escapeHtml(kv[1]) \o <<"=", "\"">> \o escapeHtml(kv[2]) \o <<"\"">>

\* Mutant: the class attribute is emitted whether or not there is a class.
createElement_AlwaysClass(tagName, className, textContent, attributes) ==
  <<"<">> \o tagName
  \o <<" ", "class", "=", "\"">> \o escapeHtml(className) \o <<"\"">>
  \o Flatten([i \in DOMAIN attributes |-> Attribute(attributes[i])])
  \o <<">">> \o textContent \o <<"<", "/">> \o tagName \o <<">">>

\* Mutant: the builder escapes the content it is given as well.
createElement_EscapesContent(tagName, className, textContent, attributes) ==
  <<"<">> \o tagName
  \o (IF className # <<>>
        THEN <<" ", "class", "=", "\"">> \o escapeHtml(className) \o <<"\"">>
        ELSE <<>>)
  \o Flatten([i \in DOMAIN attributes |-> Attribute(attributes[i])])
  \o <<">">> \o escapeHtml(textContent) \o <<"<", "/">> \o tagName \o <<">">>

createElement(tagName, className, textContent, attributes) ==
  <<"<">> \o tagName
  \o (IF className # <<>>
        THEN <<" ", "class", "=", "\"">> \o escapeHtml(className) \o <<"\"">>
        ELSE <<>>)
  \o Flatten([i \in DOMAIN attributes |-> Attribute(attributes[i])])
  \o <<">">> \o textContent \o <<"<", "/">> \o tagName \o <<">">>

\* The literal `<div class="...">` of the template strings.
DivOpen(cls) == <<"<", "div", " ", "class", "=", "\"", cls, "\"", ">">>

DivClose == <<"<", "/", "div", ">">>

createSection(title) ==
  DivOpen("section")
  \o (IF Truthy(title) THEN createElement(<<"h2">>, <<>>, safeText(title), <<>>)
      ELSE <<>>)

\* ------------------------------------------------------------------------
\* ContentUtils
\* ------------------------------------------------------------------------

\* The literal `<i class="..."></i> ` that precedes the link of a contact item.
Icon(cls) ==
  <<"<", "i", " ", "class", "=", "\"">> \o cls
  \o <<"\"", ">", "<", "/", "i", ">", " ">>

ContactItem(inner) == createElement(<<"span">>, <<"contact-item">>, inner, <<>>)

Href(value) == << <<(<<"href">>), value>> >>

\* Mutant: the network name enters the icon class as it is.
ProfileItem_RawNetwork(profile) ==
  IF Truthy(profile.network) /\ Truthy(profile.url)
    THEN ContactItem(
           Icon(<<"fa-brands fa-">> \o toLowerCase(Val(profile.network)))
           \o createElement(<<"a">>, <<>>,
                            safeText(Some(stripProtocol(Val(profile.url)))),
                            Href(Val(profile.url))))
    ELSE <<>>

\* Mutant: a profile is shown when it has a network or a url.
ProfileItem_EitherField(profile) ==
  IF Truthy(profile.network) \/ Truthy(profile.url)
    THEN ContactItem(
           Icon(<<"fa-brands fa-">> \o escapeHtml(toLowerCase(Val(profile.network))))
           \o createElement(<<"a">>, <<>>,
                            safeText(Some(stripProtocol(Val(profile.url)))),
                            Href(Val(profile.url))))
    ELSE <<>>

ProfileItem(profile) ==
  IF Truthy(profile.network) /\ Truthy(profile.url)
    THEN ContactItem(
           Icon(<<"fa-brands fa-">> \o escapeHtml(toLowerCase(Val(profile.network))))
           \o createElement(<<"a">>, <<>>,
                            safeText(Some(stripProtocol(Val(profile.url)))),
                            Href(Val(profile.url))))
    ELSE <<>>

\* Mutant: the url item is emitted before the email item.
addContactInfo_UrlFirst(email, phone, url, profiles) ==
  DivOpen("contact-info")
  \o (IF Truthy(url)
        THEN ContactItem(
               Icon(<<"fas fa-globe">>)
               \o createElement(<<"a">>, <<>>,
                                safeText(Some(stripProtocol(Val(url)))),
                                Href(Val(url))))
        ELSE <<>>)
  \o (IF Truthy(email)
        THEN ContactItem(
               Icon(<<"fas fa-envelope">>)
               \o createElement(<<"a">>, <<>>, safeText(email),
                                Href(<<"mailto:">> \o Str(email))))
        ELSE <<>>)
  \o (IF Truthy(phone)
        THEN ContactItem(
               Icon(<<"fas fa-phone">>)
               \o createElement(<<"a">>, <<>>, safeText(phone),
                                Href(<<"tel:">> \o Str(phone))))
        ELSE <<>>)
  \o Flatten([i \in DOMAIN profiles |-> ProfileItem(profiles[i])])
  \o DivClose

addContactInfo(email, phone, url, profiles) ==
  DivOpen("contact-info")
  \o (IF Truthy(email)
        THEN ContactItem(
               Icon(<<"fas fa-envelope">>)
               \o createElement(<<"a">>, <<>>, safeText(email),
                                Href(<<"mailto:">> \o Str(email))))
        ELSE <<>>)
  \o (IF Truthy(phone)
        THEN ContactItem(
               Icon(<<"fas fa-phone">>)
               \o createElement(<<"a">>, <<>>, safeText(phone),
                                Href(<<"tel:">> \o Str(phone))))
        ELSE <<>>)
  \o (IF Truthy(url)
        THEN ContactItem(
               Icon(<<"fas fa-globe">>)
               \o createElement(<<"a">>, <<>>,
                                safeText(Some(stripProtocol(Val(url)))),
                                Href(Val(url))))
        ELSE <<>>)
  \o Flatten([i \in DOMAIN profiles |-> ProfileItem(profiles[i])])
  \o DivClose

LocationKeys == <<"address", "city", "region", "postalCode", "countryCode">>

\* locationParts after the five pushes.
RECURSIVE LocationParts(_, _)
LocationParts(location, keys) ==
  IF keys = <<>> THEN <<>>
  ELSE (IF Truthy(location[Head(keys)])
          THEN <<safeText(location[Head(keys)])>> ELSE <<>>)
       \o LocationParts(location, Tail(keys))

\* Mutant: the five parts are joined whether or not they are present.
addLocation_JoinAll(location) ==
  DivOpen("location")
  \o Join([k \in DOMAIN LocationKeys |-> safeText(location[LocationKeys[k]])], <<", ">>)
  \o DivClose

addLocation(location) ==
  DivOpen("location")
  \o Join(LocationParts(location, LocationKeys), <<", ">>)
  \o DivClose

addChips(keywords) ==
  DivOpen("chips")
  \o Flatten([i \in DOMAIN keywords |->
       createElement(<<"span">>, <<"chip">>, safeText(Some(keywords[i])), <<>>)])
  \o DivClose

\* The literal `<ul class="...">` of the template strings.
UlOpen(cls) == <<"<", "ul", " ", "class", "=", "\"", cls, "\"", ">">>

UlClose == <<"<", "/", "ul", ">">>

ListItems(items) ==
  Flatten([i \in DOMAIN items |->
    createElement(<<"li">>, <<>>, safeText(Some(items[i])), <<>>)])

\* Mutant: only an absent list is left out.
addHighlights_NoLengthCheck(highlights) ==
  IF highlights = None THEN <<>>
  ELSE UlOpen("highlights") \o ListItems(highlights[1]) \o UlClose

addHighlights(highlights) ==
  IF highlights = None \/ Len(highlights[1]) = 0 THEN <<>>
  ELSE UlOpen("highlights") \o ListItems(highlights[1]) \o UlClose

THEME_STYLES ==
  <<
    "\n",
    "<",
    "style",
    ">",
    "\n  @import url(",
    "'",
    "https://fonts.googleapis.com/css2?family=Lato:ital,wght@0,100;0,300;0,400;0,700;0,900;1,100;1,300;1,400;1,700;1,900",
    "&",
    "display=swap",
    "'",
    ");\n  @import url(",
    "'",
    "https://cdnjs.cloudflare.com/ajax/libs/font-awesome/7.0.0/css/all.min.css",
    "'",
    ");\n\n  .resume-container {\n    display: flex;\n    padding: 20px;\n    max-width: 1600px;\n    margin: auto;\n    font-family: ",
    "\"",
    "Lato",
    "\"",
    ", sans-serif;\n    font-size: 14px;\n\n    h1, h2, h3, h4 {\n      margin-top: 0;\n      margin-bottom: 10px;\n    }\n\n    p {\n      margin: 5px 0 0 0;\n    }\n\n    .left-column {\n      flex: 1;\n      padding: 10px;\n      background-color: #f4f4f9;\n      border-radius: 12px;\n    }\n\n    .right-column {\n      flex: 2;\n      padding: 10px 10px 10px 0;\n    }\n\n    .section {\n      position: relative;\n      margin: 10px;\n      break-inside: avoid;\n\n      .section-item {\n        margin: 5px;\n        break-inside: avoid;\n\n        h3 {\n          display: inline-block;\n          margin-right: 10px;\n        }\n\n        h4 {\n          display: inline-block;\n          color: #666;\n        }\n      }\n\n      .timeline-section-item {\n        position: relative;\n        display: flex;\n        align-items: flex-start;\n        margin-top: 10px;\n        break-inside: avoid;\n\n        h3 {\n          display: inline-block;\n          margin: 0;\n        }\n\n        h4 {\n          margin: 10px 0;\n        }\n\n        .timeline {\n          position: absolute;\n          width: 65px;\n          text-align: right;\n          font-size: 12px;\n        }\n\n        .timeline::before {\n          content: ",
    "\"",
    "\"",
    ";\n          position: absolute;\n          left: 70px; /* Adjusted to align with the timeline */\n          top: 5px;\n          width: 16px;\n          height: 16px;\n          background-color: #007BFF;\n          border-radius: 50%;\n        }\n\n        .timeline-section-details {\n          position: relative;\n          margin-left: 92px;\n        }\n\n        .description {\n          color: #666;\n          font-size: 12px;\n          display: inline-block;\n          margin-left: 5px;\n        }\n\n        .title-anex {\n          color: #666;\n          font-size: 12px;\n          margin-top: 5px;\n        }\n      }\n\n      .timeline-section-item::before {\n        content: ",
    "\"",
    "\"",
    ";\n        position: absolute;\n        left: 75px; /* Adjusted to align with the timeline */\n        top: 30px;\n        width: 6px;\n        height: calc(100% - 30px);\n        background-color: #ccc;\n        border-radius: 3px;\n      }\n\n      .highlights, .courses {\n        padding-left: 15px;\n        margin-top: 5px;\n        margin-bottom: 5px;\n      }\n\n      .highlights li, .courses li {\n        margin-bottom: 5px;\n      }\n\n      .chips {\n        display: flex;\n        flex-wrap: wrap;\n        gap: 5px;\n        margin-bottom: 10px;\n      }\n\n      .chip {\n        background-color: #007BFF;\n        color: white;\n        padding: 4px 8px;\n        border-radius: 20px;\n        font-size: 12px;\n      }\n    }\n\n    .profile-picture {\n      float: left;\n      margin-right: 20px;\n      width: 100px;\n      height: 100px;\n      border-radius: 50%;\n      object-fit: cover;\n    }\n    @media only screen and (max-width: 1000px) {\n      .profile-picture {\n        display: none;\n      }\n    }\n    @media only print {\n      .profile-picture {\n        display: none;\n      }\n    }\n\n    .contact-info {\n      display: flex;\n      flex-wrap: wrap;\n      gap: 10px;\n      margin-top: 10px;\n    }\n\n    .contact-item {\n      text-decoration: none;\n      color: #007BFF;\n    }\n  }\n",
    "<",
    "/",
    "style",
    ">",
    "\n"
  >>

\* ------------------------------------------------------------------------
\* new URL(reference), with no base URL: the WHATWG URL parser, for strings
\* without credentials, IPv6 literals, percent-escapes, numeric hosts or
\* ports out of range.
\* ------------------------------------------------------------------------

RECURSIVE TrimLeft(_)
TrimLeft(s) ==
  IF s # <<>> /\ Head(s) = " " THEN TrimLeft(Tail(s)) ELSE s

RECURSIVE TrimRight(_)
TrimRight(s) ==
  IF s # <<>> /\ s[Len(s)] = " " THEN TrimRight(SubSeq(s, 1, Len(s) - 1)) ELSE s

IsSchemeChar(c) == IsAlpha(c) \/ c \in Digits \/ c \in {"+", "-", "."}

\* The index of the ":" that ends the scheme, or 0 when the string has none.
SchemeEnd(s) ==
  LET colons == {i \in DOMAIN s : s[i] = ":"}
  IN  IF colons = {} THEN 0
      ELSE LET i == CHOOSE c \in colons : \A d \in colons : c <= d
           IN  IF i > 1 /\ IsAlpha(s[1]) /\ \A j \in 2..(i - 1) : IsSchemeChar(s[j])
                 THEN i ELSE 0

SpecialSchemes ==
  { <<"h","t","t","p">>, <<"h","t","t","p","s">>, <<"f","t","p">>,
    <<"w","s">>, <<"w","s","s">>, <<"f","i","l","e">> }

ForbiddenHostChars ==
  {" ", "#", "/", ":", "<", ">", "?", "@", "[", "\\", "]", "^", "|", "%"}

RECURSIVE SkipSlashes(_)
SkipSlashes(s) ==
  IF s # <<>> /\ Head(s) \in {"/", "\\"} THEN SkipSlashes(Tail(s)) ELSE s

\* The prefix of s before the first character of stops.
Before(s, stops) ==
  LET hits == {i \in DOMAIN s : s[i] \in stops}
  IN  IF hits = {} THEN s
      ELSE SubSeq(s, 1, (CHOOSE c \in hits : \A d \in hits : c <= d) - 1)

\* host[:port] is accepted: the host has no forbidden character and the
\* port, when given, is a decimal number.
HostPortOK(authority, emptyHostOK) ==
  LET host == Before(authority, {":"})
      port == SubSeq(authority, Len(host) + 2, Len(authority))
  IN  /\ emptyHostOK \/ host # <<>>
      /\ \A i \in DOMAIN host : host[i] \notin ForbiddenHostChars
      /\ \A i \in DOMAIN port : port[i] \in Digits
      /\ host = <<>> => port = <<>>

\* TRUE when new URL(text) returns, FALSE when it throws.
URLParses(text) ==
  LET s == TrimRight(TrimLeft(text))
      e == SchemeEnd(s)
      scheme == toLowerCase(SubSeq(s, 1, e - 1))
      rest == SubSeq(s, e + 1, Len(s))
  IN  IF e = 0 THEN FALSE
      ELSE IF scheme \in SpecialSchemes
        THEN HostPortOK(Before(SkipSlashes(rest), {"/", "\\", "?", "#"}),
                        scheme = <<"f","i","l","e">>)
      ELSE IF Len(rest) >= 2 /\ rest[1] = "/" /\ rest[2] = "/"
        THEN HostPortOK(Before(SubSeq(rest, 3, Len(rest)), {"/", "?", "#"}), TRUE)
      ELSE TRUE

\* ------------------------------------------------------------------------
\* SectionCreators
\* ------------------------------------------------------------------------

EmptyLocation ==
  [address |-> None, city |-> None, region |-> None,
   postalCode |-> None, countryCode |-> None]

\* Mutant: the contact block is emitted before the location line.
createBasicsSection_ContactFirst(basics) ==
  IF basics = None THEN <<>>
  ELSE
    LET b == basics[1]
        location == IF b.location = None THEN EmptyLocation ELSE b.location[1]
        profiles == IF b.profiles = None THEN <<>> ELSE b.profiles[1]
    IN  createSection(None)
        \o (IF Truthy(b.image)
              THEN createElement(<<"img">>, <<>>, <<>>,
                     << <<(<<"class">>), <<"profile-picture">> >>,
                        <<(<<"src">>), Val(b.image)>>,
                        <<(<<"alt">>), <<"Profile Picture">> >> >>)
              ELSE <<>>)
        \o (IF Truthy(b.name)
              THEN createElement(<<"h1">>, <<"resume-name">>, safeText(b.name), <<>>)
              ELSE <<>>)
        \o (IF Truthy(b.label)
              THEN createElement(<<"h2">>, <<"job-title">>, safeText(b.label), <<>>)
              ELSE <<>>)
        \o addContactInfo(b.email, b.phone, b.url, profiles)
        \o addLocation(location)
        \o (IF Truthy(b.summary)
              THEN createElement(<<"p">>, <<>>, safeText(b.summary), <<>>)
              ELSE <<>>)
        \o DivClose

\* Mutant: the label heading is emitted whether or not there is a label.
createBasicsSection_BlankLabel(basics) ==
  IF basics = None THEN <<>>
  ELSE
    LET b == basics[1]
        location == IF b.location = None THEN EmptyLocation ELSE b.location[1]
        profiles == IF b.profiles = None THEN <<>> ELSE b.profiles[1]
    IN  createSection(None)
        \o (IF Truthy(b.image)
              THEN createElement(<<"img">>, <<>>, <<>>,
                     << <<(<<"class">>), <<"profile-picture">> >>,
                        <<(<<"src">>), Val(b.image)>>,
                        <<(<<"alt">>), <<"Profile Picture">> >> >>)
              ELSE <<>>)
        \o (IF Truthy(b.name)
              THEN createElement(<<"h1">>, <<"resume-name">>, safeText(b.name), <<>>)
              ELSE <<>>)
        \o createElement(<<"h2">>, <<"job-title">>, safeText(b.label), <<>>)
        \o addLocation(location)
        \o addContactInfo(b.email, b.phone, b.url, profiles)
        \o (IF Truthy(b.summary)
              THEN createElement(<<"p">>, <<>>, safeText(b.summary), <<>>)
              ELSE <<>>)
        \o DivClose

createBasicsSection(basics) ==
  IF basics = None THEN <<>>
  ELSE
    LET b == basics[1]
        location == IF b.location = None THEN EmptyLocation ELSE b.location[1]
        profiles == IF b.profiles = None THEN <<>> ELSE b.profiles[1]
    IN  createSection(None)
        \o (IF Truthy(b.image)
              THEN createElement(<<"img">>, <<>>, <<>>,
                     << <<(<<"class">>), <<"profile-picture">> >>,
                        <<(<<"src">>), Val(b.image)>>,
                        <<(<<"alt">>), <<"Profile Picture">> >> >>)
              ELSE <<>>)
        \o (IF Truthy(b.name)
              THEN createElement(<<"h1">>, <<"resume-name">>, safeText(b.name), <<>>)
              ELSE <<>>)
        \o (IF Truthy(b.label)
              THEN createElement(<<"h2">>, <<"job-title">>, safeText(b.label), <<>>)
              ELSE <<>>)
        \o addLocation(location)
        \o addContactInfo(b.email, b.phone, b.url, profiles)
        \o (IF Truthy(b.summary)
              THEN createElement(<<"p">>, <<>>, safeText(b.summary), <<>>)
              ELSE <<>>)
        \o DivClose

\* Mutant: the fluency is emitted whenever the field exists, empty or not.
LanguageItem_EmptyFluency(language) ==
  DivOpen("section-item")
  \o (IF Truthy(language.language)
        THEN createElement(<<"h3">>, <<>>, safeText(language.language), <<>>)
        ELSE <<>>)
  \o (IF language.fluency # None
        THEN createElement(<<"h4">>, <<"subtitle">>, safeText(language.fluency), <<>>)
        ELSE <<>>)
  \o DivClose

LanguageItem(language) ==
  DivOpen("section-item")
  \o (IF Truthy(language.language)
        THEN createElement(<<"h3">>, <<>>, safeText(language.language), <<>>)
        ELSE <<>>)
  \o (IF Truthy(language.fluency)
        THEN createElement(<<"h4">>, <<"subtitle">>, safeText(language.fluency), <<>>)
        ELSE <<>>)
  \o DivClose

createLanguagesSection(languages) ==
  IF languages = None \/ Len(languages[1]) = 0 THEN <<>>
  ELSE createSection(Some(<<"Languages">>))
       \o Flatten([i \in DOMAIN languages[1] |-> LanguageItem(languages[1][i])])
       \o DivClose

\* Mutant: the chips are added whenever the entry has a keywords list.
SkillItem_ChipsForAnyList(skill) ==
  DivOpen("section-item")
  \o (IF Truthy(skill.name)
        THEN createElement(<<"h3">>, <<>>, safeText(skill.name), <<>>)
        ELSE <<>>)
  \o (IF Truthy(skill.level)
        THEN createElement(<<"h4">>, <<"subtitle">>, safeText(skill.level), <<>>)
        ELSE <<>>)
  \o (IF skill.keywords # None THEN addChips(Val(skill.keywords)) ELSE <<>>)
  \o DivClose

SkillItem(skill) ==
  DivOpen("section-item")
  \o (IF Truthy(skill.name)
        THEN createElement(<<"h3">>, <<>>, safeText(skill.name), <<>>)
        ELSE <<>>)
  \o (IF Truthy(skill.level)
        THEN createElement(<<"h4">>, <<"subtitle">>, safeText(skill.level), <<>>)
        ELSE <<>>)
  \o (IF NonEmptyArray(skill.keywords) THEN addChips(Val(skill.keywords)) ELSE <<>>)
  \o DivClose

\* Mutant: only an absent collection is left out.
createSkillsSection_NoLengthCheck(skills) ==
  IF skills = None THEN <<>>
  ELSE createSection(Some(<<"Skills">>))
       \o Flatten([i \in DOMAIN skills[1] |-> SkillItem(skills[1][i])])
       \o DivClose

createSkillsSection(skills) ==
  IF skills = None \/ Len(skills[1]) = 0 THEN <<>>
  ELSE createSection(Some(<<"Skills">>))
       \o Flatten([i \in DOMAIN skills[1] |-> SkillItem(skills[1][i])])
       \o DivClose

InterestItem(interest) ==
  DivOpen("section-item")
  \o (IF Truthy(interest.name)
        THEN createElement(<<"h3">>, <<>>, safeText(interest.name), <<>>)
        ELSE <<>>)
  \o (IF NonEmptyArray(interest.keywords)
        THEN addChips(Val(interest.keywords)) ELSE <<>>)
  \o DivClose

createInterestsSection(interests) ==
  IF interests = None \/ Len(interests[1]) = 0 THEN <<>>
  ELSE createSection(Some(<<"Interests">>))
       \o Flatten([i \in DOMAIN interests[1] |-> InterestItem(interests[1][i])])
       \o DivClose

\* Mutant: the reference is taken for a URL when it has an http(s) scheme.
ReferenceBody_SchemeTest(reference) ==
  IF Val(reference) # stripProtocol(Val(reference))
    THEN createElement(<<"a">>, <<"reference-link">>,
                       safeText(Some(stripProtocol(Val(reference)))),
                       Href(Val(reference)))
    ELSE createElement(<<"p">>, <<>>, safeText(reference), <<>>)

\* try { new URL(reference); <anchor> } catch (e) { <paragraph> }
ReferenceBody(reference) ==
  IF URLParses(Val(reference))
    THEN createElement(<<"a">>, <<"reference-link">>,
                       safeText(Some(stripProtocol(Val(reference)))),
                       Href(Val(reference)))
    ELSE createElement(<<"p">>, <<>>, safeText(reference), <<>>)

ReferenceItem(ref) ==
  DivOpen("section-item")
  \o (IF Truthy(ref.name)
        THEN createElement(<<"h3">>, <<>>, safeText(ref.name), <<>>)
        ELSE <<>>)
  \o (IF Truthy(ref.reference) THEN ReferenceBody(ref.reference) ELSE <<>>)
  \o DivClose

createReferencesSection(references) ==
  IF references = None \/ Len(references[1]) = 0 THEN <<>>
  ELSE DivOpen("section references")
       \o createElement(<<"h2">>, <<>>, <<"References">>, <<>>)
       \o Flatten([i \in DOMAIN references[1] |-> ReferenceItem(references[1][i])])
       \o DivClose

\* Mutant: the start marker is emitted first.
ExperienceTimeline_StartFirst(startDate, endDate) ==
  IF Truthy(startDate) \/ Truthy(endDate)
    THEN DivOpen("timeline")
         \o (IF Truthy(startDate)
               THEN createElement(<<"span">>, <<"date">>, safeText(startDate), <<>>)
                    \o <<" ", "<", "br", ">", " ">>
               ELSE <<>>)
         \o (IF Truthy(endDate)
               THEN createElement(<<"span">>, <<"date">>, safeText(endDate), <<>>)
               ELSE createElement(<<"span">>, <<"date">>, <<"Present">>, <<>>))
         \o DivClose
    ELSE <<>>

\* The date block of an Experience entry.
ExperienceTimeline(startDate, endDate) ==
  IF Truthy(startDate) \/ Truthy(endDate)
    THEN DivOpen("timeline")
         \o (IF Truthy(endDate)
               THEN createElement(<<"span">>, <<"date">>, safeText(endDate), <<>>)
               ELSE createElement(<<"span">>, <<"date">>, <<"Present">>, <<>>))
         \o (IF Truthy(startDate)
               THEN <<" ", "<", "br", ">", " ">>
                    \o createElement(<<"span">>, <<"date">>, safeText(startDate), <<>>)
               ELSE <<>>)
         \o DivClose
    ELSE <<>>

\* Mutant: the url is linked only when it has an http(s) scheme.
ExperienceAnnex_HttpOnly(location, url) ==
  IF Truthy(location) \/ Truthy(url)
    THEN DivOpen("title-anex")
         \o (IF Truthy(location)
               THEN createElement(<<"span">>, <<>>, safeText(location), <<>>)
               ELSE <<>>)
         \o (IF Truthy(url) /\ Val(url) # stripProtocol(Val(url))
               THEN <<" ", "&", "bull;", " ">>
                    \o createElement(<<"a">>, <<"url">>,
                                     safeText(Some(stripProtocol(Val(url)))),
                                     Href(Val(url)))
               ELSE <<>>)
         \o DivClose
    ELSE <<>>

\* The location and url line of an Experience entry.
ExperienceAnnex(location, url) ==
  IF Truthy(location) \/ Truthy(url)
    THEN DivOpen("title-anex")
         \o (IF Truthy(location)
               THEN createElement(<<"span">>, <<>>, safeText(location), <<>>)
               ELSE <<>>)
         \o (IF Truthy(url)
               THEN <<" ", "&", "bull;", " ">>
                    \o createElement(<<"a">>, <<"url">>,
                                     safeText(Some(stripProtocol(Val(url)))),
                                     Href(Val(url)))
               ELSE <<>>)
         \o DivClose
    ELSE <<>>

\* Mutant: the details block of an entry is left open.
ExperienceItem_Unclosed(experience) ==
  DivOpen("timeline-section-item")
  \o ExperienceTimeline(experience.startDate, experience.endDate)
  \o DivOpen("timeline-section-details")
  \o (IF Truthy(experience.name)
        THEN createElement(<<"h3">>, <<>>, safeText(experience.name), <<>>)
        ELSE <<>>)
  \o (IF Truthy(experience.description)
        THEN createElement(<<"span">>, <<"description">>,
                           safeText(experience.description), <<>>)
        ELSE <<>>)
  \o ExperienceAnnex(experience.location, experience.url)
  \o (IF Truthy(experience.position)
        THEN createElement(<<"h4">>, <<"subtitle">>, safeText(experience.position), <<>>)
        ELSE <<>>)
  \o (IF Truthy(experience.summary)
        THEN createElement(<<"p">>, <<>>, safeText(experience.summary), <<>>)
        ELSE <<>>)
  \o (IF NonEmptyArray(experience.highlights)
        THEN addHighlights(experience.highlights) ELSE <<>>)
  \o DivClose

ExperienceItem(experience) ==
  DivOpen("timeline-section-item")
  \o ExperienceTimeline(experience.startDate, experience.endDate)
  \o DivOpen("timeline-section-details")
  \o (IF Truthy(experience.name)
        THEN createElement(<<"h3">>, <<>>, safeText(experience.name), <<>>)
        ELSE <<>>)
  \o (IF Truthy(experience.description)
        THEN createElement(<<"span">>, <<"description">>,
                           safeText(experience.description), <<>>)
        ELSE <<>>)
  \o ExperienceAnnex(experience.location, experience.url)
  \o (IF Truthy(experience.position)
        THEN createElement(<<"h4">>, <<"subtitle">>, safeText(experience.position), <<>>)
        ELSE <<>>)
  \o (IF Truthy(experience.summary)
        THEN createElement(<<"p">>, <<>>, safeText(experience.summary), <<>>)
        ELSE <<>>)
  \o (IF NonEmptyArray(experience.highlights)
        THEN addHighlights(experience.highlights) ELSE <<>>)
  \o DivClose
  \o DivClose

\* Mutant: the entries are emitted last to first.
createExperienceSection_Reversed(experiences) ==
  IF experiences = None \/ Len(experiences[1]) = 0 THEN <<>>
  ELSE createSection(Some(<<"Experience">>))
       \o Flatten([i \in DOMAIN experiences[1] |->
            ExperienceItem(experiences[1][Len(experiences[1]) + 1 - i])])
       \o DivClose

createExperienceSection(experiences) ==
  IF experiences = None \/ Len(experiences[1]) = 0 THEN <<>>
  ELSE createSection(Some(<<"Experience">>))
       \o Flatten([i \in DOMAIN experiences[1] |-> ExperienceItem(experiences[1][i])])
       \o DivClose

\* Mutant: an entry without end date gets an empty end marker.
ProjectsTimeline_BlankEnd(startDate, endDate) ==
  IF Truthy(startDate) \/ Truthy(endDate)
    THEN DivOpen("timeline")
         \o (IF Truthy(endDate)
               THEN createElement(<<"span">>, <<"date">>, safeText(endDate), <<>>)
               ELSE createElement(<<"span">>, <<"date">>, <<>>, <<>>))
         \o (IF Truthy(startDate)
               THEN <<" ", "<", "br", ">", " ">>
                    \o createElement(<<"span">>, <<"date">>, safeText(startDate), <<>>)
               ELSE <<>>)
         \o DivClose
    ELSE <<>>

\* The date block of a Projects entry.
ProjectsTimeline(startDate, endDate) ==
  IF Truthy(startDate) \/ Truthy(endDate)
    THEN DivOpen("timeline")
         \o (IF Truthy(endDate)
               THEN createElement(<<"span">>, <<"date">>, safeText(endDate), <<>>)
               ELSE createElement(<<"span">>, <<"date">>, <<"Present">>, <<>>))
         \o (IF Truthy(startDate)
               THEN <<" ", "<", "br", ">", " ">>
                    \o createElement(<<"span">>, <<"date">>, safeText(startDate), <<>>)
               ELSE <<>>)
         \o DivClose
    ELSE <<>>

ProjectItem(project) ==
  DivOpen("timeline-section-item")
  \o ProjectsTimeline(project.startDate, project.endDate)
  \o DivOpen("timeline-section-details")
  \o (IF Truthy(project.name)
        THEN createElement(<<"h3">>, <<>>, safeText(project.name), <<>>)
        ELSE <<>>)
  \o (IF Truthy(project.url)
        THEN <<" ", "&", "bull;", " ">>
             \o createElement(<<"a">>, <<"description">>,
                              safeText(Some(stripProtocol(Val(project.url)))),
                              Href(Val(project.url)))
        ELSE <<>>)
  \o (IF Truthy(project.description)
        THEN createElement(<<"p">>, <<>>, safeText(project.description), <<>>)
        ELSE <<>>)
  \o (IF NonEmptyArray(project.highlights)
        THEN UlOpen("highlights") \o ListItems(Val(project.highlights)) \o UlClose
        ELSE <<>>)
  \o (IF NonEmptyArray(project.keywords)
        THEN addChips(Val(project.keywords)) ELSE <<>>)
  \o DivClose
  \o DivClose

createProjectsSection(projects) ==
  IF projects = None \/ Len(projects[1]) = 0 THEN <<>>
  ELSE DivOpen("section")
       \o createElement(<<"h2">>, <<>>, <<"Projects">>, <<>>)
       \o Flatten([i \in DOMAIN projects[1] |-> ProjectItem(projects[1][i])])
       \o DivClose

\* Mutant: a date is shown by its first four characters.
VolunteerTimeline_YearOnly(startDate, endDate) ==
  IF Truthy(startDate) \/ Truthy(endDate)
    THEN DivOpen("timeline")
         \o (IF Truthy(endDate)
               THEN createElement(<<"span">>, <<"date">>,
                                  safeText(Some(SubSeq(endDate[1], 1, 4))), <<>>)
               ELSE createElement(<<"span">>, <<"date">>, <<"Present">>, <<>>))
         \o (IF Truthy(startDate)
               THEN <<" ", "<", "br", ">", " ">>
                    \o createElement(<<"span">>, <<"date">>,
                                     safeText(Some(SubSeq(startDate[1], 1, 4))), <<>>)
               ELSE <<>>)
         \o DivClose
    ELSE <<>>

\* The date block of a Volunteer entry.
VolunteerTimeline(startDate, endDate) ==
  IF Truthy(startDate) \/ Truthy(endDate)
    THEN DivOpen("timeline")
         \o (IF Truthy(endDate)
               THEN createElement(<<"span">>, <<"date">>, safeText(endDate), <<>>)
               ELSE createElement(<<"span">>, <<"date">>, <<"Present">>, <<>>))
         \o (IF Truthy(startDate)
               THEN <<" ", "<", "br", ">", " ">>
                    \o createElement(<<"span">>, <<"date">>, safeText(startDate), <<>>)
               ELSE <<>>)
         \o DivClose
    ELSE <<>>

VolunteerItem(vol) ==
  DivOpen("timeline-section-item")
  \o VolunteerTimeline(vol.startDate, vol.endDate)
  \o DivOpen("timeline-section-details")
  \o (IF Truthy(vol.organization)
        THEN createElement(<<"h3">>, <<>>, safeText(vol.organization), <<>>)
        ELSE <<>>)
  \o (IF Truthy(vol.url)
        THEN createElement(<<"a">>, <<"description">>,
                           safeText(Some(stripProtocol(Val(vol.url)))),
                           Href(Val(vol.url)))
        ELSE <<>>)
  \o (IF Truthy(vol.position)
        THEN createElement(<<"div">>, <<"title-anex">>, safeText(vol.position), <<>>)
        ELSE <<>>)
  \o (IF Truthy(vol.summary)
        THEN createElement(<<"p">>, <<>>, safeText(vol.summary), <<>>)
        ELSE <<>>)
  \o (IF NonEmptyArray(vol.highlights) THEN addHighlights(vol.highlights) ELSE <<>>)
  \o DivClose
  \o DivClose

createVolunteerSection(volunteer) ==
  IF volunteer = None \/ Len(volunteer[1]) = 0 THEN <<>>
  ELSE createSection(Some(<<"Volunteer">>))
       \o Flatten([i \in DOMAIN volunteer[1] |-> VolunteerItem(volunteer[1][i])])
       \o DivClose

\* Mutant: the date block is emitted only for an entry with a startDate.
EducationTimeline_NeedsStart(startDate, endDate) ==
  IF Truthy(startDate)
    THEN DivOpen("timeline")
         \o (IF Truthy(endDate)
               THEN createElement(<<"span">>, <<"date">>, safeText(endDate), <<>>)
               ELSE createElement(<<"span">>, <<"date">>, <<"Present">>, <<>>))
         \o <<" ", "<", "br", ">", " ">>
         \o createElement(<<"span">>, <<"date">>, safeText(startDate), <<>>)
         \o DivClose
    ELSE <<>>

\* The date block of an Education entry.
EducationTimeline(startDate, endDate) ==
  IF Truthy(startDate) \/ Truthy(endDate)
    THEN DivOpen("timeline")
         \o (IF Truthy(endDate)
               THEN createElement(<<"span">>, <<"date">>, safeText(endDate), <<>>)
               ELSE createElement(<<"span">>, <<"date">>, <<"Present">>, <<>>))
         \o (IF Truthy(startDate)
               THEN <<" ", "<", "br", ">", " ">>
                    \o createElement(<<"span">>, <<"date">>, safeText(startDate), <<>>)
               ELSE <<>>)
         \o DivClose
    ELSE <<>>

\* The area and studyType line of an Education entry.
EducationAnnex(area, studyType) ==
  IF Truthy(area) \/ Truthy(studyType)
    THEN DivOpen("title-anex")
         \o (IF Truthy(area)
               THEN createElement(<<"span">>, <<>>, safeText(area), <<>>)
               ELSE <<>>)
         \o (IF Truthy(studyType)
               THEN createElement(<<"span">>, <<"description">>,
                                  safeText(studyType), <<>>)
               ELSE <<>>)
         \o DivClose
    ELSE <<>>

EducationItem(edu) ==
  DivOpen("timeline-section-item")
  \o EducationTimeline(edu.startDate, edu.endDate)
  \o DivOpen("timeline-section-details")
  \o (IF Truthy(edu.institution)
        THEN createElement(<<"h3">>, <<>>, safeText(edu.institution), <<>>)
        ELSE <<>>)
  \o (IF Truthy(edu.url)
        THEN createElement(<<"a">>, <<"description">>,
                           safeText(Some(stripProtocol(Val(edu.url)))),
                           Href(Val(edu.url)))
        ELSE <<>>)
  \o EducationAnnex(edu.area, edu.studyType)
  \o (IF NonEmptyArray(edu.courses)
        THEN UlOpen("courses") \o ListItems(Val(edu.courses)) \o UlClose
        ELSE <<>>)
  \o DivClose
  \o DivClose

createEducationSection(education) ==
  IF education = None \/ Len(education[1]) = 0 THEN <<>>
  ELSE createSection(Some(<<"Education">>))
       \o Flatten([i \in DOMAIN education[1] |-> EducationItem(education[1][i])])
       \o DivClose

\* ------------------------------------------------------------------------
\* Main render function
\* ------------------------------------------------------------------------

\* Mutant: Skills is emitted before Languages.
createLeftColumn_SkillsFirst(data) ==
  DivOpen("left-column")
  \o (IF Has(data, "basics") THEN createBasicsSection(data.basics) ELSE <<>>)
  \o (IF Has(data, "skills") THEN createSkillsSection(data.skills) ELSE <<>>)
  \o (IF Has(data, "languages") THEN createLanguagesSection(data.languages) ELSE <<>>)
  \o (IF Has(data, "interests") THEN createInterestsSection(data.interests) ELSE <<>>)
  \o (IF Has(data, "references") THEN createReferencesSection(data.references) ELSE <<>>)
  \o DivClose

\* Mutant: the left column is left out when none of its fields is present.
createLeftColumn_Optional(data) ==
  IF \A field \in {"basics", "languages", "skills", "interests", "references"} :
       ~Has(data, field)
    THEN <<>>
  ELSE
    DivOpen("left-column")
    \o (IF Has(data, "basics") THEN createBasicsSection(data.basics) ELSE <<>>)
    \o (IF Has(data, "languages") THEN createLanguagesSection(data.languages) ELSE <<>>)
    \o (IF Has(data, "skills") THEN createSkillsSection(data.skills) ELSE <<>>)
    \o (IF Has(data, "interests") THEN createInterestsSection(data.interests) ELSE <<>>)
    \o (IF Has(data, "references") THEN createReferencesSection(data.references) ELSE <<>>)
    \o DivClose

\* Mutant: the Interests block is a copy of the Skills block in which only
\* the renderer was renamed.
createLeftColumn_CopiedBlock(data) ==
  DivOpen("left-column")
  \o (IF Has(data, "basics") THEN createBasicsSection(data.basics) ELSE <<>>)
  \o (IF Has(data, "languages") THEN createLanguagesSection(data.languages) ELSE <<>>)
  \o (IF Has(data, "skills") THEN createSkillsSection(data.skills) ELSE <<>>)
  \o (IF Has(data, "skills") THEN createInterestsSection(data.skills) ELSE <<>>)
  \o (IF Has(data, "references") THEN createReferencesSection(data.references) ELSE <<>>)
  \o DivClose

createLeftColumn(data) ==
  DivOpen("left-column")
  \o (IF Has(data, "basics") THEN createBasicsSection(data.basics) ELSE <<>>)
  \o (IF Has(data, "languages") THEN createLanguagesSection(data.languages) ELSE <<>>)
  \o (IF Has(data, "skills") THEN createSkillsSection(data.skills) ELSE <<>>)
  \o (IF Has(data, "interests") THEN createInterestsSection(data.interests) ELSE <<>>)
  \o (IF Has(data, "references") THEN createReferencesSection(data.references) ELSE <<>>)
  \o DivClose

\* Mutant: the right column ends with a section for the awards.
createRightColumn_WithAwards(data) ==
  DivOpen("right-column")
  \o (IF Has(data, "work") THEN createExperienceSection(data.work) ELSE <<>>)
  \o (IF Has(data, "projects") THEN createProjectsSection(data.projects) ELSE <<>>)
  \o (IF Has(data, "volunteer") THEN createVolunteerSection(data.volunteer) ELSE <<>>)
  \o (IF Has(data, "education") THEN createEducationSection(data.education) ELSE <<>>)
  \o (IF Has(data, "awards") /\ Len(data.awards[1]) > 0
        THEN createSection(Some(<<"Awards">>)) \o DivClose ELSE <<>>)
  \o DivClose

createRightColumn(data) ==
  DivOpen("right-column")
  \o (IF Has(data, "work") THEN createExperienceSection(data.work) ELSE <<>>)
  \o (IF Has(data, "projects") THEN createProjectsSection(data.projects) ELSE <<>>)
  \o (IF Has(data, "volunteer") THEN createVolunteerSection(data.volunteer) ELSE <<>>)
  \o (IF Has(data, "education") THEN createEducationSection(data.education) ELSE <<>>)
  \o DivClose

render(data) ==
  DivOpen("resume-container")
  \o THEME_STYLES
  \o createLeftColumn(data)
  \o createRightColumn(data)
  \o DivClose

\* ------------------------------------------------------------------------
\* Resume records given to render
\* ------------------------------------------------------------------------

\* The number of optional fields set in one entry of a section.
MaxEntryKeys == 2

\* The number of entries in a collection.
MaxEntries == 2

\* The number of render calls on one record.
MaxCalls == 2

\* The length of a very long text.
LongLen == 40

EmptyResume ==
  [basics |-> None, work |-> None, volunteer |-> None, education |-> None,
   awards |-> None, certificates |-> None, publications |-> None,
   skills |-> None, languages |-> None, interests |-> None,
   references |-> None, projects |-> None, extra |-> None]

EmptyBasics ==
  [name |-> None, label |-> None, image |-> None, email |-> None,
   phone |-> None, url |-> None, summary |-> None, location |-> None,
   profiles |-> None]

EmptyProfile == [network |-> None, url |-> None]

EmptyWork ==
  [name |-> None, description |-> None, location |-> None, url |-> None,
   position |-> None, summary |-> None, highlights |-> None,
   startDate |-> None, endDate |-> None]

EmptyProject ==
  [name |-> None, url |-> None, description |-> None, highlights |-> None,
   keywords |-> None, startDate |-> None, endDate |-> None]

EmptyVolunteer ==
  [organization |-> None, url |-> None, position |-> None, summary |-> None,
   highlights |-> None, startDate |-> None, endDate |-> None]

EmptyEducation ==
  [institution |-> None, url |-> None, area |-> None, studyType |-> None,
   courses |-> None, startDate |-> None, endDate |-> None]

EmptySkill == [name |-> None, level |-> None, keywords |-> None]

EmptyLanguage == [language |-> None, fluency |-> None]

EmptyInterest == [name |-> None, keywords |-> None]

EmptyReference == [name |-> None, reference |-> None]

LeftFields == <<"basics", "languages", "skills", "interests", "references">>

RightFields == <<"work", "projects", "volunteer", "education">>

ListFields ==
  {"languages", "skills", "interests", "references",
   "work", "projects", "volunteer", "education"}

RenderedFields == {"basics"} \cup ListFields

\* The fields render does not read: three of the schema, and one ("extra")
\* that stands for any property the schema does not name.
UnusedFields == {"awards", "certificates", "publications", "extra"}

EmptyEntry(field) ==
  CASE field = "basics" -> EmptyBasics
    [] field = "languages" -> EmptyLanguage
    [] field = "skills" -> EmptySkill
    [] field = "interests" -> EmptyInterest
    [] field = "references" -> EmptyReference
    [] field = "work" -> EmptyWork
    [] field = "projects" -> EmptyProject
    [] field = "volunteer" -> EmptyVolunteer
    [] field = "education" -> EmptyEducation

\* Text values: empty, plain, and one holding all five metacharacters.
PlainText == <<"C", "o">>

MetaText == <<"<","s","c","r","i","p","t",">","&","\"","'">>

Texts == {<<>>, PlainText, MetaText}

DateText == <<"2","0","2","0","-","0","1">>

Dates == {<<>>, DateText, MetaText}

HttpsUrl == <<"h","t","t","p","s",":","/","/","x",".","y">>

QueryUrl ==
  <<"h","t","t","p",":","/","/","x",".","y","/","?","a","&","b","=","\"","<","'",">">>

BareUrl == <<"x", ".", "y">>

Urls == {<<>>, HttpsUrl, QueryUrl, BareUrl}

NotAUrl == <<"n","o","t"," ","a"," ","u","r","l">>

NoteText == <<"N","o","t","e",":"," ","a","<","b">>

NoHostUrl == <<"h","t","t","p",":","/","/">>

References == {<<>>, NotAUrl, HttpsUrl, QueryUrl, BareUrl, NoteText, NoHostUrl, MetaText}

StringArrays ==
  {<<>>, <<PlainText>>, <<MetaText, PlainText>>, <<(<<>>)>>}

Locations ==
  { EmptyLocation,
    [EmptyLocation EXCEPT !.city = Some(PlainText)],
    [EmptyLocation EXCEPT !.address = Some(MetaText), !.region = Some(<<>>),
                          !.countryCode = Some(PlainText)],
    [address |-> Some(PlainText), city |-> Some(MetaText),
     region |-> Some(PlainText), postalCode |-> Some(DateText),
     countryCode |-> Some(PlainText)] }

GitHub == <<"G","i","t","H","u","b">>

ProfileLists ==
  { <<>>,
    <<[network |-> Some(GitHub), url |-> Some(HttpsUrl)]>>,
    <<[network |-> None, url |-> Some(HttpsUrl)]>>,
    <<[network |-> Some(GitHub), url |-> None]>>,
    <<[network |-> Some(MetaText), url |-> Some(QueryUrl)]>>,
    <<[network |-> Some(<<>>), url |-> Some(HttpsUrl)],
      [network |-> Some(PlainText), url |-> Some(BareUrl)]>> }

GitHubUrl ==
  <<"h","t","t","p","s",":","/","/","g","i","t","h","u","b",".","c","o","m","/","x">>

\* The record of the profile scenario: one GitHub profile.
ScenarioResumes ==
  { [EmptyResume EXCEPT !.basics =
       Some([EmptyBasics EXCEPT !.profiles =
               Some(<<[network |-> Some(GitHub), url |-> Some(GitHubUrl)]>>)])] }

\* A record whose basics hold every field.
FullResumes ==
  { [EmptyResume EXCEPT !.basics =
       Some([name |-> Some(PlainText), label |-> Some(MetaText),
             image |-> Some(QueryUrl), email |-> Some(MetaText),
             phone |-> Some(DateText), url |-> Some(HttpsUrl),
             summary |-> Some(MetaText),
             location |-> Some([EmptyLocation EXCEPT !.city = Some(PlainText),
                                                     !.countryCode = Some(MetaText)]),
             profiles |-> Some(<<[network |-> Some(GitHub), url |-> Some(GitHubUrl)]>>)])] }

\* Three profiles, the second without a network.
MixedProfiles ==
  <<[network |-> Some(GitHub), url |-> Some(HttpsUrl)],
    [network |-> None, url |-> Some(QueryUrl)],
    [network |-> Some(PlainText), url |-> Some(BareUrl)]>>

\* The values a field of an entry of a section may hold.
FieldValues(field, key) ==
  IF key \in {"highlights", "courses", "keywords"} THEN StringArrays
  ELSE IF key \in {"url", "image"} THEN Urls
  ELSE IF key = "reference" THEN References
  ELSE IF key = "profiles" THEN ProfileLists
  ELSE IF key = "location" /\ field = "basics" THEN Locations
  ELSE IF key \in {"startDate", "endDate"} THEN Dates
  ELSE Texts

\* The entries got from entry by setting at most n more of its fields.
RECURSIVE Fill(_, _, _)
Fill(field, entry, n) ==
  IF n = 0 THEN {entry}
  ELSE {entry} \cup
       UNION { UNION { Fill(field, [entry EXCEPT ![key] = Some(v)], n - 1) :
                       v \in FieldValues(field, key) } :
               key \in {k \in DOMAIN entry : entry[k] = None} }

Entries(field) == Fill(field, EmptyEntry(field), MaxEntryKeys)

\* An entry with its first field (the title) set to text.
Titled(field, text) ==
  LET e == EmptyEntry(field)
      key == CASE field \in {"basics", "skills", "interests", "references",
                             "work", "projects"} -> "name"
               [] field = "languages" -> "language"
               [] field = "volunteer" -> "organization"
               [] field = "education" -> "institution"
  IN  [e EXCEPT ![key] = Some(text)]

\* Collections of at most MaxEntries entries: every single entry, and every
\* longer collection of titled entries.
RECURSIVE TitledLists(_, _)
TitledLists(field, n) ==
  IF n = 0 THEN {<<>>}
  ELSE {<<>>} \cup
       { <<Titled(field, t)>> \o rest :
           t \in Texts, rest \in TitledLists(field, n - 1) }

Collections(field) ==
  { <<e>> : e \in Entries(field) } \cup TitledLists(field, MaxEntries)

\* Records with one rendered section.
SectionResumes ==
  { [EmptyResume EXCEPT !.basics = Some(b)] : b \in Entries("basics") }
  \cup UNION { { [EmptyResume EXCEPT ![field] = Some(c)] : c \in Collections(field) } :
               field \in ListFields }

\* A representative value of each top-level field: empty (variant 0) or
\* with one titled entry (variant 1).
Representative(field, variant) ==
  IF field = "basics"
    THEN (IF variant = 0 THEN EmptyBasics ELSE Titled("basics", MetaText))
  ELSE IF field \in UnusedFields
    THEN (IF variant = 0 THEN <<>> ELSE <<[title |-> Some(MetaText)]>>)
  ELSE (IF variant = 0 THEN <<>> ELSE <<Titled(field, MetaText)>>)

\* Records with every subset of the rendered top-level fields present.
LayoutResumes ==
  { [field \in DOMAIN EmptyResume |->
       IF field \in present THEN Some(Representative(field, variant)) ELSE None] :
    present \in SUBSET RenderedFields, variant \in {0, 1} }

\* Records that also hold fields the renderer does not read.
UnusedResumes ==
  { [field \in DOMAIN EmptyResume |->
       IF field \in present THEN Some(Representative(field, variant)) ELSE None] :
    present \in { rendered \cup unused :
                   rendered \in {{}, {"basics", "work"}, RenderedFields},
                   unused \in (SUBSET UnusedFields) \ {{}} },
    variant \in {0, 1} }

\* Date strings of the three schema formats and one that is no date.
InvalidDate == <<"i","n","v","a","l","i","d","-","d","a","t","e">>

YearDate == <<"2","0","2","3">>

DayDate == <<"2","0","2","3","-","0","1","-","1","5">>

PassDates == {InvalidDate, YearDate, DateText, DayDate}

NonAsciiText == <<"J","o","s","é"," ","c","a","f","é">>

LongText == [i \in 1..LongLen |-> "x"]

PassTexts == {NonAsciiText, LongText}

\* Records with one entry that holds a title and dates of every format, and
\* records with one entry that holds a non-ASCII or a very long title.
PassThroughResumes ==
  { [EmptyResume EXCEPT ![field] =
       Some(<<[Titled(field, t) EXCEPT
                 !.startDate = Some(d1),
                 !.endDate = IF d2 = <<>> THEN None ELSE Some(d2)]>>)] :
    field \in {"work", "projects", "volunteer", "education"},
    t \in PassTexts \cup {<<>>}, d1 \in PassDates, d2 \in PassDates \cup {<<>>} }
  \cup { [EmptyResume EXCEPT ![field] =
            Some(IF field = "basics" THEN Titled(field, t) ELSE <<Titled(field, t)>>)] :
          field \in RenderedFields, t \in PassTexts }

\* Records whose basics hold every subset of the four contact fields.
ContactResumes ==
  { [EmptyResume EXCEPT !.basics =
       Some([EmptyBasics EXCEPT
               !.email = IF "email" \in present THEN Some(MetaText) ELSE None,
               !.phone = IF "phone" \in present THEN Some(DateText) ELSE None,
               !.url = IF "url" \in present THEN Some(HttpsUrl) ELSE None,
               !.profiles = IF "profiles" \in present THEN Some(MixedProfiles)
                            ELSE None])] :
    present \in SUBSET {"email", "phone", "url", "profiles"} }

JavascriptUrl ==
  <<"j","a","v","a","s","c","r","i","p","t",":","a","l","e","r","t","(","1",")">>

DataUrl ==
  <<"d","a","t","a",":","t","e","x","t","/","h","t","m","l",",","<","b",">">>

UpperHttpUrl == <<"H","T","T","P","S",":","/","/","x",".","y">>

NestedUrl ==
  <<"h","t","t","p",":","/","/","h","t","t","p","s",":","/","/","x",".","y">>

SchemeUrls == {JavascriptUrl, DataUrl, UpperHttpUrl, NestedUrl}

\* Records with one URL of each scheme in each place that holds a URL.
SchemeResumes ==
  { [EmptyResume EXCEPT ![field] =
       Some(<<[Titled(field, PlainText) EXCEPT !.url = Some(url)]>>)] :
    field \in {"work", "projects", "volunteer", "education"}, url \in SchemeUrls }
  \cup { [EmptyResume EXCEPT !.basics = Some([EmptyBasics EXCEPT !.url = Some(url)])] :
          url \in SchemeUrls }
  \cup { [EmptyResume EXCEPT !.basics =
            Some([EmptyBasics EXCEPT !.profiles =
                    Some(<<[network |-> Some(GitHub), url |-> Some(url)]>>)])] :
          url \in SchemeUrls }
  \cup { [EmptyResume EXCEPT !.references =
            Some(<<[EmptyReference EXCEPT !.reference = Some(url)]>>)] :
          url \in SchemeUrls }

Resumes ==
  SectionResumes \cup LayoutResumes \cup UnusedResumes \cup ContactResumes
  \cup PassThroughResumes \cup ScenarioResumes \cup FullResumes
  \cup SchemeResumes

\* ------------------------------------------------------------------------
\* The caller
\* ------------------------------------------------------------------------

Init ==
  /\ resume \in Resumes
  /\ html = <<>>
  /\ raised = FALSE
  /\ calls = 0
  /\ args = None
  /\ element = <<>>

\* A TypeError was thrown while out was built.
Throws(out) == \E i \in DOMAIN out : out[i] = TypeError

\* Mutant: the call reverses the work entries of the record in place.
Render_ReversesWork ==
  /\ calls < MaxCalls
  /\ \E out \in {render(resume)} :
       /\ raised' = Throws(out)
       /\ html' = IF Throws(out) THEN <<>> ELSE out
  /\ calls' = calls + 1
  /\ resume' =
       [resume EXCEPT
          !.work = IF @ = None THEN @
                   ELSE Some([i \in DOMAIN @[1] |-> @[1][Len(@[1]) + 1 - i]])]
  /\ UNCHANGED <<args, element>>

\* One call render(resume): the string returned, or the exception raised.
Render ==
  /\ calls < MaxCalls
  /\ \E out \in {render(resume)} :
       /\ raised' = Throws(out)
       /\ html' = IF Throws(out) THEN <<>> ELSE out
  /\ calls' = calls + 1
  /\ UNCHANGED <<resume, args, element>>

Next == Render

Spec == Init /\ [][Next]_vars

\* ------------------------------------------------------------------------
\* The element builder on its own
\* ------------------------------------------------------------------------

\* Content that is itself markup: an icon followed by a text.
IconMarkup == Icon(<<"fas fa-globe">>) \o PlainText

\* Attribute mappings, as the sequence of their entries.
AttributeLists ==
  { <<>>,
    << <<(<<"href">>), QueryUrl>> >>,
    << <<(<<"class">>), <<"profile-picture">> >>, <<(<<"src">>), QueryUrl>> >>,
    << <<(<<"src">>), HttpsUrl>>, <<(<<"class">>), <<"profile-picture">> >> >>,
    << <<(<<"alt">>), MetaText>>, <<(<<"href">>), <<>> >> >> }

\* The calls createElement(tagName, className, textContent, attributes).
ElementCalls ==
  [tagName : {<<"span">>, <<"a">>},
   className : {<<>>, <<"chip">>, MetaText},
   textContent : {<<>>, PlainText, MetaText, IconMarkup},
   attributes : AttributeLists]

ElementInit ==
  /\ args \in ElementCalls
  /\ element = <<>>
  /\ calls = 0
  /\ resume = EmptyResume
  /\ html = <<>>
  /\ raised = FALSE

\* One call of createElement with the arguments args.
CreateElement ==
  /\ calls < MaxCalls
  /\ element' = createElement(args.tagName, args.className, args.textContent,
                              args.attributes)
  /\ calls' = calls + 1
  /\ UNCHANGED <<args, resume, html, raised>>

ElementNext == CreateElement

ElementSpec == ElementInit /\ [][ElementNext]_vars

\* ------------------------------------------------------------------------
\* The highlight list helper, on its own and under the renderers
\* ------------------------------------------------------------------------

\* Lists of at most n strings.
RECURSIVE StringLists(_)
StringLists(n) ==
  IF n = 0 THEN {<<>>}
  ELSE {<<>>} \cup { <<t>> \o rest :
                       t \in {<<>>, PlainText, MetaText, DateText},
                       rest \in StringLists(n - 1) }

\* The calls addHighlights(highlights).
HighlightCalls ==
  {[highlights |-> None]}
  \cup { [highlights |-> Some(list)] : list \in StringLists(MaxEntries + 1) }

HighlightsInit ==
  \/ Init
  \/ /\ args \in HighlightCalls
     /\ element = <<>>
     /\ calls = 0
     /\ resume = EmptyResume
     /\ html = <<>>
     /\ raised = FALSE

\* One call of addHighlights with the arguments args.
AddHighlights ==
  /\ args # None
  /\ calls < MaxCalls
  /\ element' = addHighlights(args.highlights)
  /\ calls' = calls + 1
  /\ UNCHANGED <<args, resume, html, raised>>

HighlightsNext ==
  \/ AddHighlights
  \/ args = None /\ Render

HighlightsSpec == HighlightsInit /\ [][HighlightsNext]_vars

\* ------------------------------------------------------------------------
\* Reading the output
\* ------------------------------------------------------------------------

MatchAt(s, i, pat) ==
  /\ i >= 1
  /\ i + Len(pat) - 1 <= Len(s)
  /\ \A k \in DOMAIN pat : s[i + k - 1] = pat[k]

Matches(s, pat) == {i \in DOMAIN s : MatchAt(s, i, pat)}

Contains(s, pat) == \E i \in DOMAIN s : MatchAt(s, i, pat)

Count(s, pat) == Cardinality(Matches(s, pat))

MinOrZero(m) == IF m = {} THEN 0 ELSE CHOOSE i \in m : \A j \in m : i <= j

\* The index of the first occurrence of pat in s, or 0.
IndexOf(s, pat) == MinOrZero(Matches(s, pat))

\* Some occurrence of a ends before some occurrence of b starts.
Precedes(s, a, b) ==
  \E i \in Matches(s, a) : \E j \in Matches(s, b) : i + Len(a) <= j

\* The class attribute class="cls" of an element.
ClassAttr(cls) == <<"class", "=", "\"", cls, "\"">>

\* The entity form of one character, by the table of the five entities.
EntityOf(c) ==
  CASE c = "&" -> <<"&","a","m","p",";">>
    [] c = "<" -> <<"&","l","t",";">>
    [] c = ">" -> <<"&","g","t",";">>
    [] c = "\"" -> <<"&","q","u","o","t",";">>
    [] c = "'" -> <<"&","#","3","9",";">>
    [] OTHER -> <<c>>

\* The text with each metacharacter replaced by its entity.
Encoded(text) == Flatten([i \in DOMAIN text |-> EntityOf(text[i])])

MetaChars == {"&", "<", ">", "\"", "'"}

HasMeta(text) == \E i \in DOMAIN text : text[i] \in MetaChars

\* The heading <h2>Title</h2> of a section.
Title(field) ==
  CASE field = "languages" -> "Languages"
    [] field = "skills" -> "Skills"
    [] field = "interests" -> "Interests"
    [] field = "references" -> "References"
    [] field = "work" -> "Experience"
    [] field = "projects" -> "Projects"
    [] field = "volunteer" -> "Volunteer"
    [] field = "education" -> "Education"

Heading(field) == <<"<", "h2", ">", Title(field), "<", "/", "h2", ">">>

\* The number of section containers in the output.
SectionCount(s) ==
  Count(s, ClassAttr("section")) + Count(s, ClassAttr("section references"))

Rendered == calls > 0

\* ------------------------------------------------------------------------
\* escapeHtml called on its own
\* ------------------------------------------------------------------------

\* The length of the strings given to escapeHtml.
MaxText == 3

\* The five metacharacters and two characters that occur in entities.
EscapeChars == {"&", "<", ">", "\"", "'", "a", ";"}

\* The strings of at most n characters.
RECURSIVE CharStrings(_)
CharStrings(n) ==
  IF n = 0 THEN {<<>>}
  ELSE CharStrings(n - 1)
       \cup { Append(text, c) : text \in { t \in CharStrings(n - 1) : Len(t) = n - 1 },
                                c \in EscapeChars }

\* Strings that already look escaped, and the markup of the section inputs.
EntityTexts ==
  { <<"&","a","m","p",";">>, <<"&","l","t",";">>, <<"&","#","3","9",";">>,
    <<"&","a","m","p",";","l","t",";">>, MetaText }

\* The calls escapeHtml(text), each with a second string to compare with:
\* a single character, or a string that looks escaped.
EscapeCalls ==
  [text : CharStrings(MaxText) \cup EntityTexts,
   other : CharStrings(1) \cup EntityTexts \cup {<<"&", "<">>}]

EscapeInit ==
  /\ args \in EscapeCalls
  /\ element = <<>>
  /\ calls = 0
  /\ resume = EmptyResume
  /\ html = <<>>
  /\ raised = FALSE

\* One call of escapeHtml with the string args.text.
EscapeHtml ==
  /\ args # None
  /\ calls < MaxCalls
  /\ element' = escapeHtml(args.text)
  /\ calls' = calls + 1
  /\ UNCHANGED <<args, resume, html, raised>>

EscapeNext == EscapeHtml

EscapeSpec == EscapeInit /\ [][EscapeNext]_vars

\* ------------------------------------------------------------------------
\* The date blocks of the four timeline sections built on their own
\* ------------------------------------------------------------------------

\* A date field: absent, empty, or one of the date strings.
OptionalDates ==
  {None, Some(<<>>), Some(MetaText), Some(InvalidDate), Some(YearDate),
   Some(DateText), Some(DayDate)}

\* The entries whose date block is built, by their two date fields.
TimelineCalls == [startDate : OptionalDates, endDate : OptionalDates]

\* No date block has been built yet.
NoBlocks ==
  [work |-> None, projects |-> None, volunteer |-> None, education |-> None]

TimelineInit ==
  /\ args \in TimelineCalls
  /\ element = NoBlocks
  /\ calls = 0
  /\ resume = EmptyResume
  /\ html = <<>>
  /\ raised = FALSE

\* The date block of the entry as the Experience section builds it.
BuildExperienceTimeline ==
  /\ args # None
  /\ element.work = None
  /\ element' = [element EXCEPT
                   !.work = Some(ExperienceTimeline(args.startDate, args.endDate))]
  /\ calls' = calls + 1
  /\ UNCHANGED <<args, resume, html, raised>>

\* The date block of the entry as the Projects section builds it.
BuildProjectsTimeline ==
  /\ args # None
  /\ element.projects = None
  /\ element' = [element EXCEPT
                   !.projects = Some(ProjectsTimeline(args.startDate, args.endDate))]
  /\ calls' = calls + 1
  /\ UNCHANGED <<args, resume, html, raised>>

\* The date block of the entry as the Volunteer section builds it.
BuildVolunteerTimeline ==
  /\ args # None
  /\ element.volunteer = None
  /\ element' = [element EXCEPT
                   !.volunteer = Some(VolunteerTimeline(args.startDate, args.endDate))]
  /\ calls' = calls + 1
  /\ UNCHANGED <<args, resume, html, raised>>

\* The date block of the entry as the Education section builds it.
BuildEducationTimeline ==
  /\ args # None
  /\ element.education = None
  /\ element' = [element EXCEPT
                   !.education = Some(EducationTimeline(args.startDate, args.endDate))]
  /\ calls' = calls + 1
  /\ UNCHANGED <<args, resume, html, raised>>

TimelineNext ==
  \/ BuildExperienceTimeline
  \/ BuildProjectsTimeline
  \/ BuildVolunteerTimeline
  \/ BuildEducationTimeline

TimelineSpec == TimelineInit /\ [][TimelineNext]_vars

\* ------------------------------------------------------------------------
\* C1
\* ------------------------------------------------------------------------

\* C1: for every resume record, whatever subset of the top-level fields is
\* present and whatever text the fields carry, the string returned by render
\* holds exactly one element of class resume-container, exactly one of class
\* left-column and exactly one of class right-column.
C1_OneContainerAndColumns ==
  Rendered =>
    /\ ~raised
    /\ Count(html, ClassAttr("resume-container")) = 1
    /\ Count(html, ClassAttr("left-column")) = 1
    /\ Count(html, ClassAttr("right-column")) = 1

\* A record with fields of both columns and an unread field was rendered.
C1_Witness ==
  /\ Rendered
  /\ Has(resume, "basics") /\ Has(resume, "work") /\ Has(resume, "awards")
  /\ resume.basics[1].name = Some(MetaText)
  /\ Count(html, ClassAttr("left-column")) = 1

\* ------------------------------------------------------------------------
\* C2
\* ------------------------------------------------------------------------

TagNames ==
  {"div", "h1", "h2", "h3", "h4", "span", "a", "i", "p", "ul", "li", "img", "br"}

AttrNames == {"class", "href", "src", "alt"}

\* The index of the last atom of the style block.
StyleEnd(s) == IndexOf(s, <<"<", "/", "style", ">">>) + 3

At(s, i) == IF i \in DOMAIN s THEN s[i] ELSE ""

\* The metacharacter at index i of s belongs to the markup: "<" opens a tag
\* or a closing tag, ">" ends one, a double quote delimits an attribute
\* value, "&" starts one of the five entities or the bullet of the template.
IsMarkupAt(s, i) ==
  CASE s[i] = "<" ->
         \/ At(s, i + 1) \in TagNames
         \/ At(s, i + 1) = "/" /\ At(s, i + 2) \in TagNames
    [] s[i] = ">" ->
         \/ At(s, i - 1) = "\""
         \/ /\ At(s, i - 1) \in TagNames
            /\ \/ At(s, i - 2) = "<"
               \/ At(s, i - 2) = "/" /\ At(s, i - 3) = "<"
    [] s[i] = "\"" ->
         \/ At(s, i - 1) = "=" /\ At(s, i - 2) \in AttrNames /\ At(s, i - 3) = " "
         \/ At(s, i + 1) = ">"
         \/ At(s, i + 1) = " " /\ At(s, i + 2) \in AttrNames /\ At(s, i + 3) = "="
    [] s[i] = "&" ->
         \/ At(s, i + 1) = "bull;"
         \/ \E c \in MetaChars : MatchAt(s, i, EntityOf(c))
    [] OTHER -> FALSE

\* After the style block every metacharacter of s belongs to the markup.
NoRawMetaChars(s) ==
  \E e \in {StyleEnd(s)} :
    \A i \in DOMAIN s :
      (i > e /\ s[i] \in MetaChars) => IsMarkupAt(s, i)

\* The fields of an entry of a section that become the text of an element.
TextKeys(field) ==
  CASE field = "basics" -> {"name", "label", "summary"}
    [] field = "languages" -> {"language", "fluency"}
    [] field = "skills" -> {"name", "level"}
    [] field = "interests" -> {"name"}
    [] field = "references" -> {"name"}
    [] field = "work" -> {"name", "description", "location", "position",
                          "summary", "startDate", "endDate"}
    [] field = "projects" -> {"name", "description", "startDate", "endDate"}
    [] field = "volunteer" -> {"organization", "position", "summary",
                               "startDate", "endDate"}
    [] field = "education" -> {"institution", "area", "studyType",
                               "startDate", "endDate"}

\* The fields of an entry of a section that hold a list of texts.
ListKeys(field) ==
  CASE field \in {"work", "volunteer"} -> {"highlights"}
    [] field = "projects" -> {"highlights", "keywords"}
    [] field \in {"skills", "interests"} -> {"keywords"}
    [] field = "education" -> {"courses"}
    [] OTHER -> {}

\* The entries of a top-level field of the record.
EntriesIn(data, field) ==
  IF ~Has(data, field) THEN <<>>
  ELSE IF field = "basics" THEN <<data.basics[1]>>
  ELSE data[field][1]

\* The text is the whole content of some element of s.
IsElementText(s, text) == Contains(s, <<">">> \o text \o <<"<", "/">>)

\* C2: every text-valued field that is rendered appears at its position with
\* each of < > & " ' replaced by its entity and with none of those characters
\* raw, and no input makes a verbatim <script> tag appear in the output.
C2_TextIsEscaped ==
  Rendered =>
    /\ NoRawMetaChars(html)
    /\ ~Contains(html, <<"<","s","c","r","i","p","t",">">>)
    /\ ~Contains(html, <<"<", "script">>)
    /\ \A field \in RenderedFields :
         \A n \in DOMAIN EntriesIn(resume, field) :
           LET entry == EntriesIn(resume, field)[n]
           IN  /\ \A key \in TextKeys(field) :
                    Truthy(entry[key]) => IsElementText(html, Encoded(entry[key][1]))
               /\ \A key \in ListKeys(field) :
                    NonEmptyArray(entry[key]) =>
                      \A k \in DOMAIN entry[key][1] :
                        IsElementText(html, Encoded(entry[key][1][k]))
    /\ \A n \in DOMAIN EntriesIn(resume, "basics") :
         LET basics == EntriesIn(resume, "basics")[n]
         IN  Has(basics, "location") =>
               \A key \in DOMAIN basics.location[1] :
                 Truthy(basics.location[1][key]) =>
                   Contains(html, Encoded(basics.location[1][key][1]))
    /\ \A n \in DOMAIN EntriesIn(resume, "references") :
         LET reference == EntriesIn(resume, "references")[n].reference
         IN  (Truthy(reference) /\ ~URLParses(reference[1])) =>
               IsElementText(html, Encoded(reference[1]))

\* A name holding all five metacharacters and a <script> tag was rendered.
C2_Witness ==
  /\ Rendered
  /\ Has(resume, "basics")
  /\ resume.basics[1].name = Some(MetaText)
  /\ Contains(html, <<"&","l","t",";","s","c","r","i","p","t","&","g","t",";",
                      "&","a","m","p",";","&","q","u","o","t",";","&","#","3","9",";">>)

\* ------------------------------------------------------------------------
\* C3
\* ------------------------------------------------------------------------

\* The classes of the elements that only the Basics section emits.
BasicsClasses ==
  {"profile-picture", "resume-name", "job-title", "location", "contact-info"}

\* C3: a top-level field that is absent gets no heading and no section
\* container; a record holding only basics.name yields the h1 of class
\* resume-name carrying the name and none of the eight section headings.
C3_AbsentFieldOmitted ==
  Rendered =>
    /\ \A field \in ListFields :
         ~Has(resume, field) => ~Contains(html, Heading(field))
    /\ ~Has(resume, "basics") =>
         \A cls \in BasicsClasses : ~Contains(html, ClassAttr(cls))
    /\ ~Has(resume, "references") =>
         ~Contains(html, ClassAttr("section references"))
    /\ SectionCount(html) <= Cardinality({f \in RenderedFields : Has(resume, f)})
    /\ \A text \in Texts \ {<<>>} :
         resume = [EmptyResume EXCEPT !.basics = Some(Titled("basics", text))] =>
           /\ Contains(html, <<"<", "h1", " ">> \o ClassAttr("resume-name")
                             \o <<">">> \o Encoded(text) \o <<"<", "/", "h1", ">">>)
           /\ \A field \in ListFields : ~Contains(html, Heading(field))
           /\ SectionCount(html) = 1

\* A record holding only basics.name was rendered.
C3_Witness ==
  /\ Rendered
  /\ resume = [EmptyResume EXCEPT !.basics = Some(Titled("basics", PlainText))]
  /\ Contains(html, <<"<", "h1", " ">> \o ClassAttr("resume-name")
                    \o <<">", "C", "o", "<", "/", "h1", ">">>)
  /\ SectionCount(html) = 1

\* ------------------------------------------------------------------------
\* C4
\* ------------------------------------------------------------------------

IsEmptyCollection(data, field) == Has(data, field) /\ Len(data[field][1]) = 0

\* C4 as stated: a collection field that is present but empty still gets
\* its section wrapper and heading, with no item block.
C4_EmptyCollectionKeepsHeading ==
  Rendered =>
    \A field \in ListFields :
      IsEmptyCollection(resume, field) =>
        /\ Contains(html, Heading(field))
        /\ SectionCount(html) >= 1

\* C4 as amended: a collection field that is present but empty is rendered
\* like an absent one, with no wrapper, no heading and no item block; a
\* section is emitted exactly when its field holds at least one entry.
C4_EmptyCollectionOmitted ==
  Rendered =>
    /\ \A field \in ListFields :
         Contains(html, Heading(field)) <=>
           (Has(resume, field) /\ Len(resume[field][1]) > 0)
    /\ SectionCount(html) =
         Cardinality({f \in RenderedFields :
                        Has(resume, f) /\ (f = "basics" \/ Len(resume[f][1]) > 0)})
    /\ (\A field \in ListFields : ~Has(resume, field) \/ IsEmptyCollection(resume, field))
         => /\ ~Contains(html, ClassAttr("section-item"))
            /\ ~Contains(html, ClassAttr("timeline-section-item"))

\* A record whose collections are all present and empty was rendered.
C4_Witness ==
  /\ Rendered
  /\ \A field \in ListFields : IsEmptyCollection(resume, field)
  /\ ~Has(resume, "basics")
  /\ SectionCount(html) = 0

\* ------------------------------------------------------------------------
\* C5
\* ------------------------------------------------------------------------

StartsWith(s, p) == MatchAt(s, 1, p)

HasHttpScheme(url) ==
  \/ StartsWith(url, <<"h","t","t","p",":","/","/">>)
  \/ StartsWith(url, <<"h","t","t","p","s",":","/","/">>)

\* The URL with its leading http:// or https:// removed.
WithoutScheme(url) ==
  IF StartsWith(url, <<"h","t","t","p","s",":","/","/">>)
    THEN SubSeq(url, 9, Len(url))
    ELSE SubSeq(url, 8, Len(url))

\* The fields of the record that hold a URL.
UrlFields == {"basics", "work", "projects", "volunteer", "education"}

\* The URLs of the url-valued fields of the record; those of the profiles
\* only when mustHaveNetwork is false or the profile has a non-empty network.
UrlsOf(data, mustHaveNetwork) ==
  UNION { { EntriesIn(data, field)[n].url[1] :
            n \in {m \in DOMAIN EntriesIn(data, field) :
                     EntriesIn(data, field)[m].url # None} } :
          field \in UrlFields }
  \cup UNION { IF Has(EntriesIn(data, "basics")[n], "profiles")
                 THEN { p.url[1] :
                        p \in { q \in { EntriesIn(data, "basics")[n].profiles[1][k] :
                                        k \in DOMAIN EntriesIn(data, "basics")[n].profiles[1] } :
                                  q.url # None /\ (mustHaveNetwork => Truthy(q.network)) } }
                 ELSE {} :
               n \in DOMAIN EntriesIn(data, "basics") }

HrefAttr(value) == <<" ", "href", "=", "\"">> \o value \o <<"\"">>

IsLinkText(s, text) == Contains(s, <<">">> \o text \o <<"<", "/", "a", ">">>)

\* C5 as stated: every url-valued field that begins with http:// or https://
\* yields an href attribute holding the exact original URL and a link text
\* holding the URL without its scheme, whatever characters the URL holds.
C5_HrefIsOriginalUrl ==
  Rendered =>
    \A url \in UrlsOf(resume, FALSE) :
      HasHttpScheme(url) =>
        /\ Contains(html, HrefAttr(url))
        /\ IsLinkText(html, WithoutScheme(url))

\* C5 as amended: for basics.url, a work, project, volunteer or education
\* url, and the url of a profile that has a non-empty network, a value that
\* begins with http:// or https:// yields an href attribute holding the
\* HTML-escaped URL and a link text holding the escaped URL without its
\* scheme; both are the original characters when the URL holds none of
\* & < > " '.
C5_HrefIsEscapedUrl ==
  Rendered =>
    \A url \in UrlsOf(resume, TRUE) :
      HasHttpScheme(url) =>
        /\ Contains(html, HrefAttr(Encoded(url)))
        /\ IsLinkText(html, Encoded(WithoutScheme(url)))
        /\ ~HasMeta(url) =>
             /\ Contains(html, HrefAttr(url))
             /\ IsLinkText(html, WithoutScheme(url))

\* A work entry whose url holds & " < ' > was rendered.
C5_Witness ==
  /\ Rendered
  /\ \E n \in DOMAIN EntriesIn(resume, "work") :
       EntriesIn(resume, "work")[n].url = Some(QueryUrl)
  /\ Contains(html, HrefAttr(Encoded(QueryUrl)))
  /\ ~Contains(html, HrefAttr(QueryUrl))

\* ------------------------------------------------------------------------
\* C6
\* ------------------------------------------------------------------------

TimelineFields == {"work", "projects", "volunteer", "education"}

DateSpan(text) ==
  <<"<", "span", " ">> \o ClassAttr("date") \o <<">">> \o text
  \o <<"<", "/", "span", ">">>

\* C6: a timeline entry (work, education, projects, volunteer) with a
\* startDate and no endDate shows the literal text Present and the
\* startDate, Present first.
C6_PresentBeforeStartDate ==
  Rendered =>
    \A field \in TimelineFields :
      \A n \in DOMAIN EntriesIn(resume, field) :
        LET entry == EntriesIn(resume, field)[n]
        IN  (Truthy(entry.startDate) /\ entry.endDate = None) =>
              /\ Precedes(html, <<">", "Present", "<">>,
                          <<">">> \o Encoded(entry.startDate[1]) \o <<"<">>)
              /\ Contains(html, DateSpan(<<"Present">>)
                                \o <<" ", "<", "br", ">", " ">>
                                \o DateSpan(Encoded(entry.startDate[1])))

\* An education entry with a startDate and no endDate was rendered.
C6_Witness ==
  /\ Rendered
  /\ \E n \in DOMAIN EntriesIn(resume, "education") :
       /\ EntriesIn(resume, "education")[n].startDate = Some(DateText)
       /\ EntriesIn(resume, "education")[n].endDate = None
  /\ Precedes(html, <<"Present">>, DateText)

\* ------------------------------------------------------------------------
\* C7
\* ------------------------------------------------------------------------

\* C7: render raises for no record whose optional fields are each absent or
\* of their declared type; it returns a string, also for entries without
\* their title field and profiles without network or url.
C7_NeverRaises ==
  Rendered =>
    /\ ~raised
    /\ StartsWith(html, DivOpen("resume-container"))
    /\ MatchAt(html, Len(html) - 3, DivClose)

\* A profile without network and a profile without url were rendered.
C7_Witness ==
  /\ Rendered
  /\ ~raised
  /\ \E n \in DOMAIN EntriesIn(resume, "basics") :
       /\ Has(EntriesIn(resume, "basics")[n], "profiles")
       /\ \E k \in DOMAIN EntriesIn(resume, "basics")[n].profiles[1] :
            LET profile == EntriesIn(resume, "basics")[n].profiles[1][k]
            IN  profile.network = None /\ Truthy(profile.url)
  /\ StartsWith(html, DivOpen("resume-container"))

\* ------------------------------------------------------------------------
\* C8
\* ------------------------------------------------------------------------

ReferenceAnchor(reference) ==
  <<"<", "a", " ">> \o ClassAttr("reference-link")
  \o HrefAttr(Encoded(reference)) \o <<">">>

ReferenceParagraph(reference) ==
  <<"<", "p", ">">> \o Encoded(reference) \o <<"<", "/", "p", ">">>

\* C8: a reference string that is present is rendered as an anchor of class
\* reference-link whose href is the reference exactly when it parses as an
\* absolute URL, and as a plain paragraph otherwise; the parse failure never
\* reaches the caller, and "not a url" is rendered as a paragraph.
C8_ReferenceLinkIffUrl ==
  Rendered =>
    /\ ~raised
    /\ \A n \in DOMAIN EntriesIn(resume, "references") :
         LET reference == EntriesIn(resume, "references")[n].reference
         IN  Truthy(reference) =>
               IF URLParses(reference[1])
                 THEN /\ Contains(html, ReferenceAnchor(reference[1]))
                      /\ ~Contains(html, ReferenceParagraph(reference[1]))
                 ELSE /\ Contains(html, ReferenceParagraph(reference[1]))
                      /\ ~Contains(html, ReferenceAnchor(reference[1]))
    /\ Count(html, ClassAttr("reference-link")) =
         Cardinality({n \in DOMAIN EntriesIn(resume, "references") :
                        /\ Truthy(EntriesIn(resume, "references")[n].reference)
                        /\ URLParses(EntriesIn(resume, "references")[n].reference[1])})
    /\ \A n \in DOMAIN EntriesIn(resume, "references") :
         /\ EntriesIn(resume, "references")[n].reference = Some(NotAUrl) =>
              /\ Contains(html, <<"<", "p", ">">> \o NotAUrl \o <<"<", "/", "p", ">">>)
              /\ ~Contains(html, ClassAttr("reference-link"))
         /\ EntriesIn(resume, "references")[n].reference = Some(HttpsUrl) =>
              Contains(html, <<"<", "a", " ">> \o ClassAttr("reference-link")
                             \o HrefAttr(HttpsUrl) \o <<">", "x", ".", "y", "<", "/", "a", ">">>)

\* The reference "not a url" was rendered as a paragraph.
C8_Witness ==
  /\ Rendered
  /\ \E n \in DOMAIN EntriesIn(resume, "references") :
       EntriesIn(resume, "references")[n].reference = Some(NotAUrl)
  /\ ~URLParses(NotAUrl)
  /\ Contains(html, ReferenceParagraph(NotAUrl))

\* ------------------------------------------------------------------------
\* C9
\* ------------------------------------------------------------------------

\* The section of the field is emitted.
IsShown(data, field) ==
  Has(data, field) /\ (field = "basics" \/ Len(data[field][1]) > 0)

\* The headings of the fields that are shown occur in s in the order of
\* fields, all of them after index from and before index to.
HeadingsInOrder(s, data, fields, from, to) ==
  /\ \A i \in DOMAIN fields :
       (fields[i] # "basics" /\ IsShown(data, fields[i])) =>
         /\ Count(s, Heading(fields[i])) = 1
         /\ from < IndexOf(s, Heading(fields[i]))
         /\ IndexOf(s, Heading(fields[i])) < to
  /\ \A i, j \in DOMAIN fields :
       (/\ i < j
        /\ fields[i] # "basics" /\ IsShown(data, fields[i])
        /\ IsShown(data, fields[j])) =>
         IndexOf(s, Heading(fields[i])) < IndexOf(s, Heading(fields[j]))

\* Every occurrence of pat in s lies after index from and before index to.
AllWithin(s, pat, from, to) == \A i \in Matches(s, pat) : from < i /\ i < to

\* Every text of the entries of the field is the text of an element that
\* lies after index from and before index to.
TextsWithin(s, data, field, from, to) ==
  \A n \in DOMAIN EntriesIn(data, field) :
    \A key \in TextKeys(field) :
      Truthy(EntriesIn(data, field)[n][key]) =>
        \E i \in Matches(s, <<">">> \o Encoded(EntriesIn(data, field)[n][key][1])
                            \o <<"<", "/">>) :
          from < i /\ i < to

LayoutInOrder(s, data, style, left, right) ==
  /\ 0 < style /\ style < StyleEnd(s) /\ StyleEnd(s) < left /\ left < right
  /\ HeadingsInOrder(s, data, LeftFields, left, right)
  /\ HeadingsInOrder(s, data, RightFields, right, Len(s))
  /\ \A cls \in BasicsClasses :
       /\ AllWithin(s, ClassAttr(cls), left, right)
       /\ \A i \in DOMAIN LeftFields :
            (LeftFields[i] # "basics" /\ IsShown(data, LeftFields[i])) =>
              AllWithin(s, ClassAttr(cls), left, IndexOf(s, Heading(LeftFields[i])))
  /\ AllWithin(s, ClassAttr("section-item"), left, right)
  /\ AllWithin(s, ClassAttr("section references"), left, right)
  /\ AllWithin(s, ClassAttr("timeline-section-item"), right, Len(s))
  /\ Cardinality({i \in Matches(s, ClassAttr("section")) : i < right})
       = Cardinality({i \in DOMAIN LeftFields :
                        LeftFields[i] # "references" /\ IsShown(data, LeftFields[i])})
  /\ Cardinality({i \in Matches(s, ClassAttr("section")) : i > right})
       = Cardinality({i \in DOMAIN RightFields : IsShown(data, RightFields[i])})
  /\ \A i \in DOMAIN LeftFields : TextsWithin(s, data, LeftFields[i], left, right)
  /\ \A i \in DOMAIN RightFields : TextsWithin(s, data, RightFields[i], right, Len(s))

\* C9: whatever the input, the output holds the style block, then the left
\* column with Basics, Languages, Skills, Interests, References in that
\* order, then the right column with Experience, Projects, Volunteer,
\* Education in that order; the fragments of a left-column field lie between
\* the opening of left-column and the opening of right-column, those of a
\* right-column field after the opening of right-column.
C9_FixedSectionOrder ==
  Rendered =>
    LayoutInOrder(html, resume,
                  IndexOf(html, <<"<", "style", ">">>),
                  IndexOf(html, ClassAttr("left-column")),
                  IndexOf(html, ClassAttr("right-column")))

\* A record with all nine rendered fields, each with an entry, was rendered.
C9_Witness ==
  /\ Rendered
  /\ \A field \in RenderedFields : IsShown(resume, field)
  /\ IndexOf(html, Heading("references")) < IndexOf(html, Heading("work"))
  /\ IndexOf(html, Heading("work")) < IndexOf(html, Heading("education"))

\* ------------------------------------------------------------------------
\* C11
\* ------------------------------------------------------------------------

\* No entity of s has its ampersand escaped again (&amp;amp; &amp;lt; ...).
NoDoubleEscape(s) ==
  \A i \in Matches(s, EntityOf("&")) :
    \A c \in MetaChars : ~MatchAt(s, i + 5, Tail(EntityOf(c)))

\* The attribute name="value" of an element.
Attr(name, value) == <<" ", name, "=", "\"">> \o value \o <<"\"">>

\* The text occurs in s escaped once, and neither raw nor escaped twice.
OnceIn(s, before, text, after) ==
  /\ Contains(s, before \o Encoded(text) \o after)
  /\ HasMeta(text) =>
       /\ ~Contains(s, before \o text \o after)
       /\ ~Contains(s, Encoded(Encoded(text)))

\* The texts of the entry that are rendered as element text.
EntryTexts(field, entry) ==
  { entry[key][1] : key \in {k \in TextKeys(field) : Truthy(entry[k])} }
  \cup UNION { { entry[key][1][k] : k \in DOMAIN entry[key][1] } :
               key \in {k \in ListKeys(field) : NonEmptyArray(entry[k])} }

\* The profiles of the record that have a network and a url.
ShownProfiles(data) ==
  UNION { IF Has(EntriesIn(data, "basics")[n], "profiles")
            THEN { q \in { EntriesIn(data, "basics")[n].profiles[1][k] :
                           k \in DOMAIN EntriesIn(data, "basics")[n].profiles[1] } :
                     Truthy(q.network) /\ Truthy(q.url) }
            ELSE {} :
          n \in DOMAIN EntriesIn(data, "basics") }

\* C11: every piece of caller data reaches the output HTML-escaped exactly
\* once: element texts (escaped through safeText) and attribute values
\* (escaped by the element builder, or by escapeHtml for the icon class)
\* occur in their once-escaped form, never raw and never escaped twice, so
\* an input & never appears as &amp;amp;.
C11_EscapedExactlyOnce ==
  Rendered =>
    /\ NoRawMetaChars(html)
    /\ NoDoubleEscape(html)
    /\ \A field \in RenderedFields :
         \A n \in DOMAIN EntriesIn(resume, field) :
           \A text \in EntryTexts(field, EntriesIn(resume, field)[n]) :
             OnceIn(html, <<">">>, text, <<"<", "/">>)
    /\ \A n \in DOMAIN EntriesIn(resume, "basics") :
         LET basics == EntriesIn(resume, "basics")[n]
         IN  /\ Truthy(basics.image) =>
                  OnceIn(html, <<" ", "src", "=", "\"">>, basics.image[1], <<"\"">>)
             /\ Truthy(basics.email) =>
                  /\ OnceIn(html, <<" ", "href", "=", "\"", "mailto:">>,
                            basics.email[1], <<"\"", ">">>)
                  /\ OnceIn(html, <<">">>, basics.email[1], <<"<", "/", "a", ">">>)
             /\ Truthy(basics.phone) =>
                  /\ OnceIn(html, <<" ", "href", "=", "\"", "tel:">>,
                            basics.phone[1], <<"\"", ">">>)
                  /\ OnceIn(html, <<">">>, basics.phone[1], <<"<", "/", "a", ">">>)
    /\ \A profile \in ShownProfiles(resume) :
         OnceIn(html, <<"class", "=", "\"", "fa-brands fa-">>,
                toLowerCase(profile.network[1]), <<"\"", ">">>)
    /\ \A url \in UrlsOf(resume, TRUE) :
         url # <<>> =>
           /\ OnceIn(html, <<" ", "href", "=", "\"">>, url, <<"\"", ">">>)
           /\ OnceIn(html, <<">">>, stripProtocol(url), <<"<", "/", "a", ">">>)

\* An email and a network name holding & were rendered, each as &amp; once.
C11_Witness ==
  /\ Rendered
  /\ \E n \in DOMAIN EntriesIn(resume, "basics") :
       \/ /\ EntriesIn(resume, "basics")[n].email = Some(MetaText)
          /\ Contains(html, <<"mailto:">> \o Encoded(MetaText))
       \/ /\ \E profile \in ShownProfiles(resume) : profile.network = Some(MetaText)
          /\ Contains(html, <<"fa-brands fa-">> \o Encoded(MetaText))
  /\ Contains(html, EntityOf("&"))
  /\ NoDoubleEscape(html)

\* ------------------------------------------------------------------------
\* C12
\* ------------------------------------------------------------------------

\* The markup that only the element of the field key of an entry of the
\* section carries.
Markers(field, key) ==
  CASE key \in {"name", "language", "organization", "institution"} ->
         {IF field = "basics" THEN ClassAttr("resume-name") ELSE <<"<", "h3">>}
    [] key = "label" -> {ClassAttr("job-title")}
    [] key = "image" -> {<<"<", "img">>, ClassAttr("profile-picture")}
    [] key = "email" -> {<<"fas fa-envelope">>, <<"mailto:">>}
    [] key = "phone" -> {<<"fas fa-phone">>, <<"tel:">>}
    [] key = "url" ->
         {IF field = "basics" THEN <<"fas fa-globe">> ELSE <<"<", "a">>}
    [] key = "profiles" -> {<<"fa-brands fa-">>}
    [] key = "summary" -> {<<"<", "p", ">">>}
    [] key = "description" ->
         {IF field = "work" THEN ClassAttr("description") ELSE <<"<", "p", ">">>}
    [] key \in {"fluency", "level"} -> {ClassAttr("subtitle")}
    [] key = "position" ->
         {IF field = "work" THEN ClassAttr("subtitle") ELSE ClassAttr("title-anex")}
    [] key = "keywords" -> {ClassAttr("chips"), ClassAttr("chip")}
    [] key = "highlights" -> {ClassAttr("highlights"), <<"<", "li">>}
    [] key = "courses" -> {ClassAttr("courses"), <<"<", "li">>}
    [] key = "reference" -> {<<"<", "p", ">">>, <<"<", "a">>}
    [] key = "area" -> {<<"<", "span", ">">>}
    [] key = "studyType" -> {<<"<", "span", " ">> \o ClassAttr("description")}
    [] key = "startDate" -> {<<"<", "br", ">">>}
    [] key = "location" /\ field = "work" -> {<<"<", "span", ">">>}
    [] OTHER -> {}

\* The record holds the field and no other rendered field.
OnlyField(data, field) ==
  Has(data, field) /\ \A other \in RenderedFields \ {field} : ~Has(data, other)

\* No entry of the field has a value for the key.
AbsentIn(data, field, key) ==
  \A n \in DOMAIN EntriesIn(data, field) : EntriesIn(data, field)[n][key] = None

\* In the output of a record that holds only one section, a key that no
\* entry has leaves none of its markup; an entry without dates has no
\* timeline element.
NoElementOfAbsent(s, data) ==
  \A field \in RenderedFields :
    OnlyField(data, field) =>
      /\ \A key \in DOMAIN EmptyEntry(field) :
           AbsentIn(data, field, key) =>
             \A pat \in Markers(field, key) : ~Contains(s, pat)
      /\ (field \in TimelineFields
          /\ AbsentIn(data, field, "startDate")
          /\ AbsentIn(data, field, "endDate")) =>
           /\ ~Contains(s, ClassAttr("timeline"))
           /\ ~Contains(s, ClassAttr("date"))

\* The basics record has no location part.
NoLocationPart(basics) ==
  \/ basics.location = None
  \/ \A key \in DOMAIN EmptyLocation : ~Truthy(basics.location[1][key])

\* The basics record has none of the contact fields.
NoContactField(basics) ==
  /\ basics.email = None /\ basics.phone = None /\ basics.url = None
  /\ basics.profiles = None

\* C12 as stated: an absent optional field of basics or of a section entry
\* leaves no element dedicated to it; in particular there is no location
\* element when no location part is present and no contact element when
\* email, phone, url and profiles are all absent.
C12_AbsentFieldNoElement ==
  Rendered =>
    /\ NoElementOfAbsent(html, resume)
    /\ \A n \in DOMAIN EntriesIn(resume, "basics") :
         LET basics == EntriesIn(resume, "basics")[n]
         IN  /\ NoLocationPart(basics) => ~Contains(html, ClassAttr("location"))
             /\ NoContactField(basics) => ~Contains(html, ClassAttr("contact-info"))

\* C12 as amended: an absent optional field of basics or of a section entry
\* leaves no element dedicated to it, except that the Basics section always
\* holds the location container and the contact container, which are empty
\* when no location part and no contact field is present.
C12_AbsentFieldNoElementButContainers ==
  Rendered =>
    /\ NoElementOfAbsent(html, resume)
    /\ \A n \in DOMAIN EntriesIn(resume, "basics") :
         LET basics == EntriesIn(resume, "basics")[n]
         IN  /\ Count(html, ClassAttr("location")) = 1
             /\ Count(html, ClassAttr("contact-info")) = 1
             /\ NoLocationPart(basics) =>
                  Contains(html, DivOpen("location") \o DivClose)
             /\ NoContactField(basics) =>
                  /\ Contains(html, DivOpen("contact-info") \o DivClose)
                  /\ ~Contains(html, ClassAttr("contact-item"))
    /\ ~Has(resume, "basics") =>
         /\ ~Contains(html, ClassAttr("location"))
         /\ ~Contains(html, ClassAttr("contact-info"))

\* A basics record with a name and nothing else was rendered: it has no
\* label, image or summary element and its two containers are empty.
C12_Witness ==
  /\ Rendered
  /\ OnlyField(resume, "basics")
  /\ Truthy(resume.basics[1].name)
  /\ \A key \in DOMAIN EmptyBasics \ {"name"} : resume.basics[1][key] = None
  /\ Contains(html, DivOpen("location") \o DivClose
                    \o DivOpen("contact-info") \o DivClose)
  /\ ~Contains(html, ClassAttr("job-title"))

\* ------------------------------------------------------------------------
\* C13
\* ------------------------------------------------------------------------

\* A contact item: an icon of class icon and a link to href showing text.
ContactItemOf(icon, href, text) ==
  <<"<", "span", " ">> \o ClassAttr("contact-item") \o <<">">>
  \o <<"<", "i", " ", "class", "=", "\"">> \o icon \o <<"\"", ">", "<", "/", "i", ">", " ">>
  \o <<"<", "a">> \o Attr("href", href) \o <<">">> \o text \o <<"<", "/", "a", ">">>
  \o <<"<", "/", "span", ">">>

\* The item of a profile: none unless it has a network and a url.
ProfileItemOf(profile) ==
  IF Truthy(profile.network) /\ Truthy(profile.url)
    THEN ContactItemOf(<<"fa-brands fa-">> \o Encoded(toLowerCase(profile.network[1])),
                       Encoded(profile.url[1]),
                       Encoded(stripProtocol(profile.url[1])))
    ELSE <<>>

\* The items of the contact block: email, phone, url, then the profiles.
ContactItemsOf(basics) ==
  (IF Truthy(basics.email)
     THEN ContactItemOf(<<"fas fa-envelope">>,
                        <<"mailto:">> \o Encoded(basics.email[1]),
                        Encoded(basics.email[1]))
     ELSE <<>>)
  \o (IF Truthy(basics.phone)
        THEN ContactItemOf(<<"fas fa-phone">>,
                           <<"tel:">> \o Encoded(basics.phone[1]),
                           Encoded(basics.phone[1]))
        ELSE <<>>)
  \o (IF Truthy(basics.url)
        THEN ContactItemOf(<<"fas fa-globe">>, Encoded(basics.url[1]),
                           Encoded(stripProtocol(basics.url[1])))
        ELSE <<>>)
  \o (IF Has(basics, "profiles")
        THEN Flatten([k \in DOMAIN basics.profiles[1] |->
                        ProfileItemOf(basics.profiles[1][k])])
        ELSE <<>>)

\* C13: the contact block holds, in this order and nothing else, the email
\* item linking to mailto:+email, the phone item linking to tel:+phone, the
\* url item linking to the url, and one item per profile that has both a
\* network and a url, in input order; a profile that lacks either is
\* skipped and the items of the other profiles are as without it.
C13_ContactItemsInOrder ==
  Rendered =>
    \A n \in DOMAIN EntriesIn(resume, "basics") :
      /\ Contains(html, DivOpen("contact-info")
                        \o ContactItemsOf(EntriesIn(resume, "basics")[n])
                        \o DivClose)
      /\ Count(html, ClassAttr("contact-item")) =
           Count(ContactItemsOf(EntriesIn(resume, "basics")[n]),
                 ClassAttr("contact-item"))

\* A basics record with email, phone, url and three profiles, the second
\* without network, was rendered with five contact items.
C13_Witness ==
  /\ Rendered
  /\ Has(resume, "basics")
  /\ Truthy(resume.basics[1].email)
  /\ Truthy(resume.basics[1].phone)
  /\ Truthy(resume.basics[1].url)
  /\ resume.basics[1].profiles = Some(MixedProfiles)
  /\ Count(html, ClassAttr("contact-item")) = 5
  /\ Precedes(html, <<"fas fa-envelope">>, <<"fas fa-phone">>)
  /\ Precedes(html, <<"fas fa-phone">>, <<"fas fa-globe">>)
  /\ Precedes(html, <<"fas fa-globe">>, <<"fa-brands fa-", "g","i","t","h","u","b">>)
  /\ Precedes(html, <<"fa-brands fa-", "g","i","t","h","u","b">>,
              <<"fa-brands fa-", "c","o">>)

\* ------------------------------------------------------------------------
\* C14
\* ------------------------------------------------------------------------

\* The field of an entry of the section that becomes its title.
TitleKey(field) ==
  CASE field = "languages" -> "language"
    [] field = "volunteer" -> "organization"
    [] field = "education" -> "institution"
    [] OTHER -> "name"

\* The number of entries of the fields of the record.
RECURSIVE EntryCount(_, _)
EntryCount(data, fields) ==
  IF fields = <<>> THEN 0
  ELSE Len(EntriesIn(data, Head(fields))) + EntryCount(data, Tail(fields))

\* The k-th smallest index of the set m.
Kth(m, k) == CHOOSE i \in m : Cardinality({j \in m : j < i}) = k - 1

\* The columns hold one item container per entry, and the k-th container of
\* a column opens the item of the k-th entry of the column: the container
\* of an entry that has a title starts with the heading of the title.
ItemsFollowEntries(s, data, fields, open) ==
  /\ Count(s, open) = EntryCount(data, fields)
  /\ \A p \in DOMAIN fields :
       \A n \in DOMAIN EntriesIn(data, fields[p]) :
         LET entry == EntriesIn(data, fields[p])[n]
         IN  Truthy(entry[TitleKey(fields[p])]) =>
               MatchAt(s,
                       Kth(Matches(s, open),
                           EntryCount(data, SubSeq(fields, 1, p - 1)) + n) + Len(open),
                       <<"<", "h3", ">">> \o Encoded(entry[TitleKey(fields[p])][1])
                       \o <<"<", "/", "h3", ">">>)

\* The item elements <tag attrs>text</tag> of the texts, in their order.
ItemsOf(tag, attrs, texts) ==
  Flatten([k \in DOMAIN texts |->
             <<"<", tag>> \o attrs \o <<">">> \o Encoded(texts[k])
             \o <<"<", "/", tag, ">">>])

\* The string lists of the entries are rendered as one item per string, in
\* input order: highlights and courses as list items, keywords as chips.
ListsFollowStrings(s, data) ==
  \A field \in ListFields :
    \A n \in DOMAIN EntriesIn(data, field) :
      \A key \in ListKeys(field) :
        LET list == EntriesIn(data, field)[n][key]
        IN  NonEmptyArray(list) =>
              IF key = "keywords"
                THEN /\ Contains(s, DivOpen("chips")
                                    \o ItemsOf("span", <<" ">> \o ClassAttr("chip"), list[1])
                                    \o DivClose)
                     /\ Count(s, ClassAttr("chip")) = Len(list[1])
                ELSE /\ Contains(s, UlOpen(key)
                                    \o ItemsOf("li", <<>>, list[1])
                                    \o UlClose)
                     /\ Count(s, <<"<", "li", ">">>) = Len(list[1])

\* Every collection but the profiles yields one item per element, in input
\* order.
OneItemPerElement(s, data) ==
  /\ ItemsFollowEntries(s, data, Tail(LeftFields), DivOpen("section-item"))
  /\ ItemsFollowEntries(s, data, RightFields, DivOpen("timeline-section-details"))
  /\ Count(s, ClassAttr("timeline-section-item")) = EntryCount(data, RightFields)
  /\ ListsFollowStrings(s, data)

\* The profiles of the record.
ProfilesOf(data) ==
  IF Has(data, "basics") /\ Has(data.basics[1], "profiles")
    THEN data.basics[1].profiles[1] ELSE <<>>

\* C14 as stated: every collection field, the profiles included, yields
\* exactly one item per input element, in input order.
C14_OneItemPerElement ==
  Rendered =>
    /\ OneItemPerElement(html, resume)
    /\ Count(html, <<"fa-brands fa-">>) = Len(ProfilesOf(resume))

\* C14 as amended: work, projects, volunteer, education, skills, languages,
\* interests, references, highlights, courses and keywords yield exactly one
\* item per input element, in input order whatever the dates or names; the
\* profiles yield one item per profile that has a network and a url, in
\* input order.
C14_OneItemPerShownElement ==
  Rendered =>
    /\ OneItemPerElement(html, resume)
    /\ Count(html, <<"fa-brands fa-">>) =
         Cardinality({k \in DOMAIN ProfilesOf(resume) :
                        /\ Truthy(ProfilesOf(resume)[k].network)
                        /\ Truthy(ProfilesOf(resume)[k].url)})
    /\ \A j, k \in DOMAIN ProfilesOf(resume) :
         (/\ j < k
          /\ ProfileItemOf(ProfilesOf(resume)[j]) # <<>>
          /\ ProfileItemOf(ProfilesOf(resume)[k]) # <<>>) =>
           Precedes(html, ProfileItemOf(ProfilesOf(resume)[j]),
                    ProfileItemOf(ProfilesOf(resume)[k]))

\* Two work entries with different names were rendered, the first first.
C14_Witness ==
  /\ Rendered
  /\ Len(EntriesIn(resume, "work")) = 2
  /\ resume.work[1][1].name = Some(MetaText)
  /\ resume.work[1][2].name = Some(PlainText)
  /\ Count(html, ClassAttr("timeline-section-item")) = 2
  /\ Precedes(html, <<"<", "h3", ">">> \o Encoded(MetaText),
              <<"<", "h3", ">">> \o PlainText)

\* ------------------------------------------------------------------------
\* C15
\* ------------------------------------------------------------------------

\* C15: no call of render changes the record it is given, in any field,
\* nested object or array, and no call leaves anything behind for the next:
\* a later call on the same record ends as the first one did.
C15_RecordUnchanged ==
  [][/\ resume' = resume
     /\ Rendered => (html' = html /\ raised' = raised)]_vars

\* A record with two work entries and a basics record was rendered twice.
C15_Witness ==
  /\ calls >= 2
  /\ \/ Len(EntriesIn(resume, "work")) = 2
     \/ /\ Has(resume, "basics")
        /\ resume.basics[1].profiles = Some(MixedProfiles)
  /\ html # <<>>

\* ------------------------------------------------------------------------
\* C16
\* ------------------------------------------------------------------------

\* The record without the fields that render does not read.
WithoutUnused(data) ==
  [field \in DOMAIN data |-> IF field \in UnusedFields THEN None ELSE data[field]]

C17_StringsPassThrough ==
  Rendered =>
    /\ ~raised
    /\ \A field \in RenderedFields :
         \A n \in DOMAIN EntriesIn(resume, field) :
           LET entry == EntriesIn(resume, field)[n]
           IN  /\ \A text \in EntryTexts(field, entry) :
                    ~HasMeta(text) => IsElementText(html, text)
               /\ field \in TimelineFields =>
                    \A key \in {"startDate", "endDate"} :
                      (Truthy(entry[key]) /\ ~HasMeta(entry[key][1])) =>
                        /\ Contains(html, DateSpan(entry[key][1]))
                        /\ Count(html, ClassAttr("date")) \in {1, 2}
               /\ \A key \in TextKeys(field) :
                    (/\ entry[key] = Some(<<>>)
                     /\ OnlyField(resume, field)
                     /\ Len(EntriesIn(resume, field)) = 1) =>
                      \A pat \in Markers(field, key) : ~Contains(html, pat)

\* A volunteer entry with a very long title, a start date that is no date
\* and a full end date was rendered with all three as given.
C17_Witness ==
  /\ Rendered
  /\ ~raised
  /\ Len(EntriesIn(resume, "volunteer")) = 1
  /\ resume.volunteer[1][1].organization = Some(LongText)
  /\ resume.volunteer[1][1].startDate = Some(InvalidDate)
  /\ resume.volunteer[1][1].endDate = Some(DayDate)
  /\ Contains(html, DateSpan(DayDate) \o <<" ", "<", "br", ">", " ">>
                    \o DateSpan(InvalidDate))
  /\ IsElementText(html, LongText)

\* ------------------------------------------------------------------------
\* C18
\* ------------------------------------------------------------------------

Built == args # None /\ calls > 0

\* The attribute pairs name="value" of the mapping, values escaped.
AttrsOf(attributes) ==
  Flatten([k \in DOMAIN attributes |->
             Attr(attributes[k][1][1], Encoded(attributes[k][2]))])

\* C18: createElement(tag, className, innerHtml, attributes) returns <tag,
\* then class="className" when className is not empty and no class
\* attribute at all when it is, then one name="value" pair per attribute in
\* the order of the mapping with the value escaped, then >, innerHtml as it
\* was given, and </tag>.
C18_ElementShape ==
  Built =>
    /\ element =
         <<"<">> \o args.tagName
         \o (IF args.className = <<>> THEN <<>>
             ELSE Attr("class", Encoded(args.className)))
         \o AttrsOf(args.attributes)
         \o <<">">> \o args.textContent \o <<"<", "/">> \o args.tagName \o <<">">>
    /\ ~Contains(element, <<"class", "=", "\"", "\"">>)
    /\ Count(SubSeq(element, 1, Len(element) - Len(args.textContent) - 4),
             <<"=", "\"">>) =
         Len(args.attributes) + (IF args.className = <<>> THEN 0 ELSE 1)
    /\ MatchAt(element, Len(element) - Len(args.textContent) - 3, args.textContent)

\* An element with no class, two attributes and markup as content was
\* built: the markup is in it unescaped and the attribute value escaped.
C18_Witness ==
  /\ Built
  /\ args.className = <<>>
  /\ args.attributes = << <<(<<"alt">>), MetaText>>, <<(<<"href">>), <<>> >> >>
  /\ args.textContent = IconMarkup
  /\ Contains(element, Attr("alt", Encoded(MetaText)) \o Attr("href", <<>>)
                       \o <<">">> \o IconMarkup)

\* ------------------------------------------------------------------------
\* C19
\* ------------------------------------------------------------------------

\* The date block of an entry: nothing without dates; else the end marker
\* (endDate, or Present), then a line break and the start marker when there
\* is a startDate.
DateBlockOf(entry) ==
  IF ~Truthy(entry.startDate) /\ ~Truthy(entry.endDate) THEN <<>>
  ELSE DivOpen("timeline")
       \o DateSpan(IF Truthy(entry.endDate) THEN Encoded(entry.endDate[1])
                   ELSE <<"Present">>)
       \o (IF Truthy(entry.startDate)
             THEN <<" ", "<", "br", ">", " ">> \o DateSpan(Encoded(entry.startDate[1]))
             ELSE <<>>)
       \o DivClose

\* The entries of the timeline sections of the record that have a date.
DatedEntries(data) ==
  { <<p, n>> \in (DOMAIN RightFields) \X (1..MaxEntries + 1) :
      /\ n \in DOMAIN EntriesIn(data, RightFields[p])
      /\ DateBlockOf(EntriesIn(data, RightFields[p])[n]) # <<>> }

\* C19: the item of a timeline entry starts with its date block exactly when
\* the entry has a startDate or an endDate; the block holds the end marker
\* first (endDate, or Present without one) and then, only with a startDate,
\* a line break and the start marker; an entry without dates has no
\* timeline element.
C19_TimelineBlock ==
  Rendered =>
    /\ \A p \in DOMAIN RightFields :
         \A n \in DOMAIN EntriesIn(resume, RightFields[p]) :
           MatchAt(html,
                   Kth(Matches(html, DivOpen("timeline-section-item")),
                       EntryCount(resume, SubSeq(RightFields, 1, p - 1)) + n) + 9,
                   DateBlockOf(EntriesIn(resume, RightFields[p])[n])
                   \o DivOpen("timeline-section-details"))
    /\ Count(html, ClassAttr("timeline")) = Cardinality(DatedEntries(resume))

\* An education entry with an endDate and no startDate was rendered: its
\* block holds the end marker alone.
C19_Witness ==
  /\ Rendered
  /\ Len(EntriesIn(resume, "education")) = 1
  /\ Truthy(resume.education[1][1].endDate)
  /\ resume.education[1][1].startDate = None
  /\ Contains(html, DivOpen("timeline")
                    \o DateSpan(Encoded(resume.education[1][1].endDate[1]))
                    \o DivClose)
  /\ ~Contains(html, <<"<", "br", ">">>)

\* ------------------------------------------------------------------------
\* C20
\* ------------------------------------------------------------------------

\* The bullet separator in front of the link of the annex line of an
\* Experience entry.
AnnexBullet ==
  <<" ", "&", "bull;", " ", "<", "a", " ">> \o ClassAttr("url")

\* The Experience entries of the record that satisfy the test.
WorkEntries(data, Test(_)) ==
  {n \in DOMAIN EntriesIn(data, "work") : Test(EntriesIn(data, "work")[n])}

HasLocationOrUrl(entry) == Truthy(entry.location) \/ Truthy(entry.url)

HasLocationAndUrl(entry) == Truthy(entry.location) /\ Truthy(entry.url)

\* C20 as stated: an Experience entry has an annex line when it has a
\* location or a url, and the line holds the bullet separator exactly when
\* it has both; with one of the two, the line holds that one and no bullet.
C20_BulletIffLocationAndUrl ==
  Rendered =>
    /\ (~Has(resume, "volunteer") /\ ~Has(resume, "education")) =>
         Count(html, DivOpen("title-anex")) =
           Cardinality(WorkEntries(resume, HasLocationOrUrl))
    /\ Count(html, AnnexBullet) =
         Cardinality(WorkEntries(resume, HasLocationAndUrl))

\* ------------------------------------------------------------------------
\* C21
\* ------------------------------------------------------------------------

\* The parts of the location that are present, in the fixed order.
RECURSIVE PresentParts(_, _)
PresentParts(location, keys) ==
  IF keys = <<>> THEN <<>>
  ELSE (IF Truthy(location[Head(keys)]) THEN <<location[Head(keys)][1]>> ELSE <<>>)
       \o PresentParts(location, Tail(keys))

\* The parts, each but the first preceded by the separator.
LocationLineOf(parts) ==
  Flatten([k \in DOMAIN parts |->
             (IF k = 1 THEN <<>> ELSE <<", ">>) \o Encoded(parts[k])])

\* The location of the basics record, an empty one when it has none.
LocationOf(basics) ==
  IF Has(basics, "location") THEN basics.location[1] ELSE EmptyLocation

\* C21: the location line holds exactly the present parts among address,
\* city, region, postalCode, countryCode, in that order, separated by ", ":
\* k present parts come with k-1 separators, none leading, trailing or
\* doubled.
C21_LocationLine ==
  Rendered =>
    \A n \in DOMAIN EntriesIn(resume, "basics") :
      \E parts \in {PresentParts(LocationOf(EntriesIn(resume, "basics")[n]),
                                 <<"address", "city", "region", "postalCode",
                                   "countryCode">>)} :
        /\ Contains(html, DivOpen("location") \o LocationLineOf(parts) \o DivClose)
        /\ Count(html, <<", ">>) = IF parts = <<>> THEN 0 ELSE Len(parts) - 1
        /\ ~Contains(html, <<", ", ", ">>)
        /\ ~Contains(html, DivOpen("location") \o <<", ">>)
        /\ ~Contains(html, <<", ">> \o DivClose)

\* A location with address and countryCode, an empty region and no city was
\* rendered as the two parts and one separator.
C21_Witness ==
  /\ Rendered
  /\ Has(resume, "basics")
  /\ resume.basics[1].location =
       Some([EmptyLocation EXCEPT !.address = Some(MetaText), !.region = Some(<<>>),
                                  !.countryCode = Some(PlainText)])
  /\ Contains(html, DivOpen("location") \o Encoded(MetaText) \o <<", ">>
                    \o PlainText \o DivClose)
  /\ Count(html, <<", ">>) = 1

\* ------------------------------------------------------------------------
\* C22
\* ------------------------------------------------------------------------

\* The icon element <i class="cls"></i> of a contact item.
IconOf(cls) ==
  <<"<", "i", " ", "class", "=", "\"">> \o cls \o <<"\"", ">", "<", "/", "i", ">">>

\* C22: the icon of a profile item has the class fa-brands fa- followed by
\* the lower-cased network name in escaped form, so that no character of a
\* network name ends the class attribute or the i tag or adds an attribute
\* or an element: the output holds one i element per contact item, each with
\* the one class attribute; network GitHub with url https://github.com/x
\* gives fa-github, the link text github.com/x and the href of the url.
C22_IconClassEscaped ==
  Rendered =>
    /\ \A profile \in ShownProfiles(resume) :
         /\ Contains(html, IconOf(<<"fa-brands fa-">>
                                  \o Encoded(toLowerCase(profile.network[1]))))
         /\ HasMeta(profile.network[1]) =>
              ~Contains(html, <<"fa-brands fa-">> \o toLowerCase(profile.network[1]))
    /\ Count(html, <<"<", "i">>) = Count(html, ClassAttr("contact-item"))
    /\ Count(html, <<"<", "i", " ", "class", "=", "\"">>) = Count(html, <<"<", "i">>)
    /\ Count(html, <<"\"", ">", "<", "/", "i", ">", " ", "<", "a", " ", "href">>)
         = Count(html, <<"<", "i">>)
    /\ NoRawMetaChars(html)
    /\ \A profile \in ShownProfiles(resume) :
         (profile.network = Some(GitHub) /\ profile.url = Some(GitHubUrl)) =>
           Contains(html,
             IconOf(<<"fa-brands fa-", "g", "i", "t", "h", "u", "b">>)
             \o <<" ", "<", "a">> \o Attr("href", GitHubUrl) \o <<">">>
             \o SubSeq(GitHubUrl, 9, Len(GitHubUrl)) \o <<"<", "/", "a", ">">>)

\* A profile whose network name holds < > & " ' was rendered: its icon is
\* the only i element and its class holds the name in entity form.
C22_Witness ==
  /\ Rendered
  /\ \E profile \in ShownProfiles(resume) : profile.network = Some(MetaText)
  /\ Count(html, <<"<", "i">>) = 1
  /\ Contains(html, IconOf(<<"fa-brands fa-">> \o Encoded(MetaText)))

\* ------------------------------------------------------------------------
\* C23
\* ------------------------------------------------------------------------

ChipFields == {"skills", "interests", "projects"}

\* The entries of the record that have a non-empty keywords list.
ChipEntries(data) ==
  { <<field, n>> \in ChipFields \X (1..MaxEntries + 1) :
      /\ n \in DOMAIN EntriesIn(data, field)
      /\ NonEmptyArray(EntriesIn(data, field)[n].keywords) }

\* C23: a skills, interests or projects entry has a chips container exactly
\* when its keywords are present and not empty; the container holds one chip
\* span per keyword, in input order, and closes the details of the entry;
\* without keywords there is no chips container, and a languages entry never
\* has one.
C23_ChipsIffKeywords ==
  Rendered =>
    /\ Count(html, DivOpen("chips")) = Cardinality(ChipEntries(resume))
    /\ \A e \in ChipEntries(resume) :
         Contains(html,
                  DivOpen("chips")
                  \o ItemsOf("span", <<" ">> \o ClassAttr("chip"),
                             EntriesIn(resume, e[1])[e[2]].keywords[1])
                  \o DivClose \o DivClose)
    /\ ChipEntries(resume) = {} => ~Contains(html, ClassAttr("chip"))
    /\ Has(resume, "languages") => ~Contains(html, DivOpen("section-item") \o DivOpen("chips"))

\* An interests entry with a name and two keywords was rendered with one
\* chips container of two chips.
C23_Witness ==
  /\ Rendered
  /\ Len(EntriesIn(resume, "interests")) = 1
  /\ Truthy(resume.interests[1][1].name)
  /\ resume.interests[1][1].keywords = Some(<<MetaText, PlainText>>)
  /\ Count(html, ClassAttr("chip")) = 2
  /\ Count(html, DivOpen("chips")) = 1

\* ------------------------------------------------------------------------
\* C24
\* ------------------------------------------------------------------------

\* The lists of the record that become a ul element: the non-empty
\* highlights of work, volunteer and projects entries and the non-empty
\* courses of education entries.
ListEntries(data) ==
  { <<field, n>> \in {"work", "volunteer", "projects", "education"}
                     \X (1..MaxEntries + 1) :
      /\ n \in DOMAIN EntriesIn(data, field)
      /\ NonEmptyArray(EntriesIn(data, field)[n][
                         IF field = "education" THEN "courses" ELSE "highlights"]) }

\* The output holds one ul per non-empty list of the record, each with its
\* items in input order, and no ul without items.
NoEmptyList(s, data) ==
  /\ Count(s, <<"<", "ul">>) = Cardinality(ListEntries(data))
  /\ \A e \in ListEntries(data) :
       LET key == IF e[1] = "education" THEN "courses" ELSE "highlights"
       IN  Contains(s, UlOpen(key)
                       \o ItemsOf("li", <<>>, EntriesIn(data, e[1])[e[2]][key][1])
                       \o UlClose)
  /\ ~Contains(s, UlOpen("highlights") \o UlClose)
  /\ ~Contains(s, UlOpen("courses") \o UlClose)
  /\ ListEntries(data) = {} => ~Contains(s, <<"<", "li">>)

\* C24: addHighlights returns the empty string, with no ul element, for a
\* list that is absent or has no element, and otherwise one ul of class
\* highlights with one li per highlight in input order; and no work,
\* volunteer or project entry is rendered with an empty highlights list, no
\* education entry with an empty courses list.
C24_NoEmptyHighlights ==
  /\ Built =>
       IF args.highlights = None \/ args.highlights = Some(<<>>)
         THEN element = <<>>
         ELSE /\ element = UlOpen("highlights")
                           \o ItemsOf("li", <<>>, args.highlights[1])
                           \o UlClose
              /\ Count(element, <<"<", "li", ">">>) = Len(args.highlights[1])
              /\ Count(element, <<"<", "ul">>) = 1
  /\ (Rendered /\ args = None) => NoEmptyList(html, resume)

\* addHighlights was called with an empty list and returned the empty
\* string.
C24_Witness ==
  /\ Built
  /\ args.highlights = Some(<<>>)
  /\ element = <<>>

\* ------------------------------------------------------------------------
\* C25
\* ------------------------------------------------------------------------

\* An element <tag class="cls">text</tag>, or <tag>text</tag> without class.
ElementOf(tag, cls, text) ==
  <<"<", tag>> \o (IF cls = "" THEN <<>> ELSE <<" ">> \o ClassAttr(cls))
  \o <<">">> \o text \o <<"<", "/", tag, ">">>

\* The parts of the Basics section, in their order: the image, the name,
\* the label and the summary each only when present, the location line and
\* the contact block always.
BasicsPartsOf(basics) ==
  (IF Truthy(basics.image)
     THEN <<"<", "img">> \o Attr("class", <<"profile-picture">>)
          \o Attr("src", Encoded(basics.image[1]))
          \o Attr("alt", <<"Profile Picture">>) \o <<">", "<", "/", "img", ">">>
     ELSE <<>>)
  \o (IF Truthy(basics.name)
        THEN ElementOf("h1", "resume-name", Encoded(basics.name[1])) ELSE <<>>)
  \o (IF Truthy(basics.label)
        THEN ElementOf("h2", "job-title", Encoded(basics.label[1])) ELSE <<>>)
  \o DivOpen("location")
  \o LocationLineOf(PresentParts(LocationOf(basics), LocationKeys))
  \o DivClose
  \o DivOpen("contact-info") \o ContactItemsOf(basics) \o DivClose
  \o (IF Truthy(basics.summary)
        THEN ElementOf("p", "", Encoded(basics.summary[1])) ELSE <<>>)

\* C25: the Basics section opens the left column without a heading and
\* holds, in this order and whatever fields are present, the profile image
\* (when there is an image, with the alt text Profile Picture), the name
\* h1, the label h2 (when there is a label), the location line, the contact
\* block and the summary paragraph (when there is a summary).
C25_BasicsOrder ==
  Rendered =>
    \A n \in DOMAIN EntriesIn(resume, "basics") :
      /\ Contains(html, DivOpen("left-column") \o DivOpen("section")
                        \o BasicsPartsOf(EntriesIn(resume, "basics")[n])
                        \o DivClose)
      /\ ~Contains(html, DivOpen("left-column") \o DivOpen("section")
                         \o <<"<", "h2", ">">>)

\* A basics record with image, name, label, location, contact fields and
\* summary was rendered with its parts in the order stated.
C25_Witness ==
  /\ Rendered
  /\ Has(resume, "basics")
  /\ \A key \in DOMAIN EmptyBasics : Truthy(resume.basics[1][key])
  /\ Precedes(html, <<"<", "img">>, ClassAttr("resume-name"))
  /\ Precedes(html, ClassAttr("resume-name"), ClassAttr("job-title"))
  /\ Precedes(html, ClassAttr("job-title"), ClassAttr("location"))
  /\ Precedes(html, ClassAttr("location"), ClassAttr("contact-info"))
  /\ Precedes(html, ClassAttr("contact-info"), <<"<", "p", ">">>)

\* ------------------------------------------------------------------------
\* C26
\* ------------------------------------------------------------------------

\* The tag that starts at index i of s: a closing tag </name>, or an
\* opening tag <name ...> with the class it carries, if any.
TagAt(s, i) ==
  IF At(s, i + 1) = "/"
    THEN [close |-> TRUE, name |-> At(s, i + 2), class |-> ""]
    ELSE [close |-> FALSE, name |-> At(s, i + 1),
          class |-> IF At(s, i + 2) = " " /\ At(s, i + 3) = "class"
                      THEN At(s, i + 6) ELSE ""]

NoTag == [close |-> FALSE, name |-> "", class |-> ""]

IsTag(tag) == tag # NoTag

\* The tags of s, in the order they occur.
TagsOf(s) ==
  SelectSeq([i \in DOMAIN s |-> IF s[i] = "<" THEN TagAt(s, i) ELSE NoTag],
            IsTag)

\* Elements that consist of their start tag alone.
VoidTags == {"br"}

Columns == {"left-column", "right-column"}

ItemBlocks == {"section-item", "timeline-section-item"}

\* The classes of a section: the References section carries its own.
Sections == {"section", "section references"}

Top(stack) == IF stack = <<>> THEN NoTag ELSE stack[Len(stack)]

SectionOpen(stack) == \E k \in DOMAIN stack : stack[k].class \in Sections

\* An element may be opened where the stack of open elements shows: a
\* column directly inside resume-container, a section directly inside a
\* column, an item block inside a section.
OpensInPlace(tag, stack) ==
  /\ tag.class = "resume-container" => stack = <<>>
  /\ tag.class \in Columns =>
       Len(stack) = 1 /\ Top(stack).class = "resume-container"
  /\ tag.class \in Sections => Len(stack) = 2 /\ Top(stack).class \in Columns
  /\ tag.class \in ItemBlocks => SectionOpen(stack)

\* Reading the tags from the k-th on with the given stack of open elements:
\* every closing tag closes the element opened last, every element is opened
\* in its place, and no element is left open at the end.
RECURSIVE WellNested(_, _, _)
WellNested(tags, k, stack) ==
  IF k > Len(tags) THEN stack = <<>>
  ELSE IF tags[k].name \in VoidTags THEN WellNested(tags, k + 1, stack)
  ELSE IF tags[k].close
    THEN /\ stack # <<>>
         /\ Top(stack).name = tags[k].name
         /\ WellNested(tags, k + 1, SubSeq(stack, 1, Len(stack) - 1))
    ELSE /\ OpensInPlace(tags[k], stack)
         /\ WellNested(tags, k + 1, Append(stack, tags[k]))

\* The opening tags with the given class.
OpenTags(s, cls) == Count(s, <<"<", "div", " ">> \o ClassAttr(cls))

\* C26: the markup render returns is well nested: every element opened is
\* closed, the element opened last first; left-column and right-column are
\* siblings directly inside resume-container; every section is opened and
\* closed inside its column and every item block inside its section; and
\* every tag is one of the template's own, whatever the field values hold.
C26_WellNested ==
  (Rendered /\ ~raised) =>
    /\ WellNested(TagsOf(html), 1, <<>>)
    /\ \A n \in DOMAIN TagsOf(html) :
         TagsOf(html)[n].name \in TagNames \cup {"style"}
    /\ OpenTags(html, "resume-container") = 1
    /\ OpenTags(html, "left-column") = 1
    /\ OpenTags(html, "right-column") = 1

\* A record with a work entry whose position holds markup, highlights and
\* dates was rendered: sections, item blocks and lists are all present.
C26_Witness ==
  /\ Rendered /\ ~raised
  /\ Has(resume, "work")
  /\ \E n \in DOMAIN resume.work[1] :
       /\ HasMeta(Val(resume.work[1][n].position))
       /\ NonEmptyArray(resume.work[1][n].highlights)
  /\ Count(html, DivOpen("timeline-section-item")) > 0
  /\ Count(html, UlOpen("highlights")) > 0
  /\ WellNested(TagsOf(html), 1, <<>>)

\* ------------------------------------------------------------------------
\* C27
\* ------------------------------------------------------------------------

\* The keys of an entry whose value is a list, not a string.
ListValued == {"highlights", "keywords", "courses", "profiles"}

\* The record without the string fields that hold the empty string; the
\* fields named in keep are left as they are.
DropEmpty(rec, keep) ==
  [key \in DOMAIN rec |->
     IF key \notin keep /\ rec[key] = Some(<<>>) THEN None ELSE rec[key]]

DropEmptyEach(list) == [i \in DOMAIN list |-> DropEmpty(list[i], ListValued)]

DropEmptyBasics(basics) ==
  [DropEmpty(basics, {"location", "profiles"}) EXCEPT
     !.location = IF basics.location = None THEN None
                  ELSE Some(DropEmpty(basics.location[1], {})),
     !.profiles = IF basics.profiles = None THEN None
                  ELSE Some(DropEmptyEach(basics.profiles[1]))]

\* The resume with every empty string field of basics, of its location, of
\* its profiles and of the section entries removed.
WithoutEmptyStrings(data) ==
  [field \in DOMAIN data |->
     IF data[field] = None THEN None
     ELSE IF field = "basics" THEN Some(DropEmptyBasics(data.basics[1]))
     ELSE IF field \in ListFields THEN Some(DropEmptyEach(data[field][1]))
     ELSE data[field]]

\* The positions of the profiles that have both a network and a url.
CompleteProfiles(basics) ==
  IF basics.profiles = None THEN {}
  ELSE {k \in DOMAIN basics.profiles[1] :
          Truthy(basics.profiles[1][k].network) /\ Truthy(basics.profiles[1][k].url)}

\* An entry of the given section has a start date and an empty end date.
OpenEnded(data, field) ==
  \E n \in DOMAIN EntriesIn(data, field) :
    /\ Truthy(EntriesIn(data, field)[n].startDate)
    /\ EntriesIn(data, field)[n].endDate = Some(<<>>)

\* C27: a string field holding the empty string is rendered as if it were
\* absent: render returns for the record what it returns for the record
\* without its empty string fields; an entry with a start date and an empty
\* end date shows Present, and a profile whose network or url is empty is
\* not shown.
C27_EmptyStringAsAbsent ==
  Rendered =>
    /\ html = render(WithoutEmptyStrings(resume))
    /\ \A field \in {"work", "projects", "volunteer", "education"} :
         OpenEnded(resume, field) => Contains(html, DateSpan(<<"Present">>))
    /\ \A n \in DOMAIN EntriesIn(resume, "basics") :
         Count(html, <<"fa-brands fa-">>)
           = Cardinality(CompleteProfiles(EntriesIn(resume, "basics")[n]))

\* A work entry with a start date and an empty end date was rendered as the
\* entry without end date is, with Present in its date block.
C27_Witness ==
  /\ Rendered /\ ~raised
  /\ OpenEnded(resume, "work")
  /\ WithoutEmptyStrings(resume) # resume
  /\ Contains(html, DateSpan(<<"Present">>))
  /\ html = render(WithoutEmptyStrings(resume))

\* ------------------------------------------------------------------------
\* C28
\* ------------------------------------------------------------------------

\* The metacharacter whose entity starts the text, or "" if none does.
EntityAt(s) ==
  IF \E c \in MetaChars : MatchAt(s, 1, EntityOf(c))
    THEN CHOOSE c \in MetaChars : MatchAt(s, 1, EntityOf(c))
    ELSE ""

\* The text with each of the five entities replaced by its character.
RECURSIVE Decode(_)
Decode(s) ==
  IF s = <<>> THEN <<>>
  ELSE IF EntityAt(s) # ""
    THEN <<EntityAt(s)>> \o Decode(SubSeq(s, Len(EntityOf(EntityAt(s))) + 1, Len(s)))
    ELSE <<Head(s)>> \o Decode(Tail(s))

\* C28: escapeHtml is injective and its output is free of metacharacters:
\* escapeHtml(s) holds no <, >, " or ', every & in it begins one of the five
\* entities, decoding the entities gives back s, two strings with the same
\* output are the same string, and escapeHtml(s) = s exactly when s holds
\* none of the five metacharacters.
C28_EscapeInjective ==
  Built =>
    /\ \A i \in DOMAIN element : element[i] \notin {"<", ">", "\"", "'"}
    /\ \A i \in DOMAIN element :
         element[i] = "&" =>
           EntityAt(SubSeq(element, i, Len(element))) # ""
    /\ Decode(element) = args.text
    /\ escapeHtml(args.other) = element => args.other = args.text
    /\ (element = args.text) <=> ~HasMeta(args.text)

\* A string that holds an entity already, followed by a metacharacter, was
\* escaped: its ampersand was escaped once and the entity of the
\* metacharacter was left as produced.
C28_Witness ==
  /\ Built
  /\ args.text = <<"&","a","m","p",";","l","t",";">>
  /\ args.other = <<"&", "<">>
  /\ element = <<"&","a","m","p",";","a","m","p",";","l","t",";">>
  /\ Decode(element) = args.text

\* ------------------------------------------------------------------------
\* C29
\* ------------------------------------------------------------------------

TimelineSections == {"work", "projects", "volunteer", "education"}

\* C29: the Experience, Projects, Volunteer and Education renderers build
\* the same date block for the same pair of start and end date: whichever of
\* the four have built the block of an entry, their blocks are equal.
C29_SameDateBlock ==
  args \in TimelineCalls =>
    \A one \in TimelineSections : \A two \in TimelineSections :
      (element[one] # None /\ element[two] # None)
        => element[one] = element[two]

\* The four renderers built the block of an entry with a start date that
\* holds markup and no end date: Present, the line break and the date.
C29_Witness ==
  /\ args \in TimelineCalls
  /\ args.startDate = Some(MetaText) /\ args.endDate = None
  /\ \A section \in TimelineSections : element[section] # None
  /\ element.work[1]
       = DivOpen("timeline") \o DateSpan(<<"Present">>)
         \o <<" ", "<", "br", ">", " ">> \o DateSpan(Encoded(MetaText)) \o DivClose
  /\ element.education[1] = element.work[1]

\* ------------------------------------------------------------------------
\* C30
\* ------------------------------------------------------------------------

\* The text of a link to the URL: the URL without one leading http:// or
\* https://, in whatever case the scheme is written.
LinkTextOf(url) ==
  IF StartsWith(toLowerCase(url), <<"h","t","t","p","s",":","/","/">>)
    THEN SubSeq(url, 9, Len(url))
  ELSE IF StartsWith(toLowerCase(url), <<"h","t","t","p",":","/","/">>)
    THEN SubSeq(url, 8, Len(url))
  ELSE url

\* The link to the URL: its href is the escaped URL, its text the escaped
\* link text.
LinkTo(url) ==
  HrefAttr(Encoded(url)) \o <<">">> \o Encoded(LinkTextOf(url))
  \o <<"<", "/", "a", ">">>

\* The references of the record that parse as a URL.
UrlReferences(data) ==
  { EntriesIn(data, "references")[n].reference[1] :
    n \in {m \in DOMAIN EntriesIn(data, "references") :
             /\ Truthy(EntriesIn(data, "references")[m].reference)
             /\ URLParses(EntriesIn(data, "references")[m].reference[1])} }

\* C30: a URL reaches the href attribute whatever its scheme: for
\* basics.url, the url of a profile, a work, project, volunteer or education
\* url and a reference that parses as a URL, the href holds the escaped
\* value, a javascript: or data: URL included, and the link text is the
\* value without one leading http:// or https://, matched in any case, so a
\* value with another scheme is shown in full.
C30_HrefSchemeUnchecked ==
  Rendered =>
    \A url \in (UrlsOf(resume, TRUE) \cup UrlReferences(resume)) \ {<<>>} :
      Contains(html, LinkTo(url))

\* A work entry whose url is a javascript: URL was rendered: the URL is the
\* href of a link and its text in full.
C30_Witness ==
  /\ Rendered
  /\ \E n \in DOMAIN EntriesIn(resume, "work") :
       EntriesIn(resume, "work")[n].url = Some(JavascriptUrl)
  /\ Contains(html, HrefAttr(JavascriptUrl) \o <<">">> \o JavascriptUrl
                    \o <<"<", "/", "a", ">">>)

=============================================================================
